---------------------------- MODULE Spec2Model ----------------------------
(***************************************************************************)
(* Pac-Man (src/pacman.py): the per-frame simulation Game.update_game with *)
(* PacMan.update, Ghost.update and the scoring/outcome flags, the session  *)
(* construction Game.setup_level and the keyboard/mouse handlers that      *)
(* reach them.                                                             *)
(*                                                                         *)
(* Coordinates and speeds are Python floats in the source.  They are kept  *)
(* here as integers in units of 1/PX pixel.  On level 1 every coordinate   *)
(* is a multiple of 0.5 px, which a float holds exactly; the ghost speeds  *)
(* of levels 2 and 3 (1.5 * 1.3 and 1.5 * 1.6) are taken as the decimals   *)
(* 1.95 and 2.4, without the rounding error of the float product.          *)
(***************************************************************************)
EXTENDS Integers, Sequences, FiniteSets, TLC

\* Fixed-point unit: 1 pixel = PX model units.
PX == 20

\* ------------------------------------------------------------ constants
SCREEN_WIDTH == 600 * PX
CELL_SIZE == 30 * PX
PACMAN_SPEED == (5 * PX) \div 2
GHOST_SPEED == (3 * PX) \div 2
FRIGHTENED_SPEED == 1 * PX
\* set_frightened(300) in update_game
FRIGHTENED_DURATION == 300
\* dist < CELL_SIZE * 0.7
COLLISION_DIST == (7 * CELL_SIZE) \div 10
\* PacMan.radius = CELL_SIZE // 2 - 5, margin = 4
PACMAN_RADIUS == CELL_SIZE \div 2 - 5 * PX
PACMAN_MARGIN == 4 * PX
GHOST_RADIUS == CELL_SIZE \div 2 - 2 * PX
\* score increments
PELLET_SCORE == 10
POWER_SCORE == 50
GHOST_SCORE == 200
START_LIVES == 3

\* ------------------------------------------------------------ bounds
\* Frames (calls of update_game) explored from an initial state.
MaxTicks == 3
MaxEvadeTicks == 301
MaxTemplateTicks == 8

\* ------------------------------------------------------------ Direction
Directions == {"UP", "DOWN", "LEFT", "RIGHT"}

DX(d) == CASE d = "LEFT" -> -1 [] d = "RIGHT" -> 1 [] OTHER -> 0

DY(d) == CASE d = "UP" -> -1 [] d = "DOWN" -> 1 [] OTHER -> 0

\* ------------------------------------------------------------ LEVELS
Level1Maze ==
  << <<1,1,1,1,1,1,1,1,1,1,1,1,1,1,1,1,1,1,1,1>>,
     <<1,2,2,2,2,2,2,2,2,1,1,2,2,2,2,2,2,2,2,1>>,
     <<1,3,1,1,2,1,1,1,2,1,1,2,1,1,1,2,1,1,3,1>>,
     <<1,2,2,2,2,2,2,2,2,2,2,2,2,2,2,2,2,2,2,1>>,
     <<1,2,1,1,2,1,2,1,1,1,1,1,1,2,1,2,1,1,2,1>>,
     <<1,2,2,2,2,1,2,2,2,1,1,2,2,2,1,2,2,2,2,1>>,
     <<1,1,1,1,2,1,1,1,2,1,1,2,1,1,1,2,1,1,1,1>>,
     <<1,2,2,2,2,2,2,2,2,2,2,2,2,2,2,2,2,2,2,1>>,
     <<1,2,1,1,2,1,2,1,1,0,0,1,1,2,1,2,1,1,2,1>>,
     <<1,2,2,2,2,2,2,1,0,0,0,0,1,2,2,2,2,2,2,1>>,
     <<1,2,1,1,2,1,2,1,1,1,1,1,1,2,1,2,1,1,2,1>>,
     <<1,2,2,2,2,2,2,2,2,2,2,2,2,2,2,2,2,2,2,1>>,
     <<1,1,1,1,2,1,1,1,2,1,1,2,1,1,1,2,1,1,1,1>>,
     <<1,2,2,2,2,1,2,2,2,1,1,2,2,2,1,2,2,2,2,1>>,
     <<1,2,1,1,2,1,1,1,2,1,1,2,1,1,1,2,1,1,2,1>>,
     <<1,3,2,1,2,2,2,2,2,2,2,2,2,2,2,2,1,2,3,1>>,
     <<1,1,2,1,2,1,2,1,1,1,1,1,1,2,1,2,1,2,1,1>>,
     <<1,2,2,2,2,1,2,2,2,1,1,2,2,2,1,2,2,2,2,1>>,
     <<1,2,1,1,1,1,1,1,2,1,1,2,1,1,1,1,1,1,2,1>>,
     <<1,2,2,2,2,2,2,2,2,2,2,2,2,2,2,2,2,2,2,1>>,
     <<1,1,1,1,1,1,1,1,1,1,1,1,1,1,1,1,1,1,1,1>> >>

Level2Maze ==
  << <<1,1,1,1,1,1,1,1,1,1,1,1,1,1,1,1,1,1,1,1>>,
     <<1,3,2,2,2,2,2,2,2,2,2,2,2,2,2,2,2,2,3,1>>,
     <<1,2,1,1,1,2,1,1,1,1,1,1,1,1,2,1,1,1,2,1>>,
     <<1,2,1,2,2,2,2,2,2,1,1,2,2,2,2,2,2,1,2,1>>,
     <<1,2,1,2,1,1,1,1,2,1,1,2,1,1,1,1,2,1,2,1>>,
     <<1,2,2,2,1,2,2,2,2,2,2,2,2,2,2,1,2,2,2,1>>,
     <<1,1,1,2,1,2,1,1,1,1,1,1,1,1,2,1,2,1,1,1>>,
     <<1,2,2,2,2,2,2,2,2,1,1,2,2,2,2,2,2,2,2,1>>,
     <<1,2,1,1,1,1,1,1,2,1,1,2,1,1,1,1,1,1,2,1>>,
     <<1,2,2,2,2,2,2,2,2,0,0,2,2,2,2,2,2,2,2,1>>,
     <<1,2,1,1,1,1,1,1,2,1,1,2,1,1,1,1,1,1,2,1>>,
     <<1,2,2,2,2,2,2,2,2,1,1,2,2,2,2,2,2,2,2,1>>,
     <<1,1,1,2,1,2,1,1,1,1,1,1,1,1,2,1,2,1,1,1>>,
     <<1,2,2,2,1,2,2,2,2,2,2,2,2,2,2,1,2,2,2,1>>,
     <<1,2,1,2,1,1,1,1,2,1,1,2,1,1,1,1,2,1,2,1>>,
     <<1,2,1,2,2,2,2,2,2,1,1,2,2,2,2,2,2,1,2,1>>,
     <<1,2,1,1,1,2,1,1,1,1,1,1,1,1,2,1,1,1,2,1>>,
     <<1,3,2,2,2,2,2,2,2,2,2,2,2,2,2,2,2,2,3,1>>,
     <<1,2,1,1,1,1,1,1,1,1,1,1,1,1,1,1,1,1,2,1>>,
     <<1,2,2,2,2,2,2,2,2,2,2,2,2,2,2,2,2,2,2,1>>,
     <<1,1,1,1,1,1,1,1,1,1,1,1,1,1,1,1,1,1,1,1>> >>

Level3Maze ==
  << <<1,1,1,1,1,1,1,1,1,1,1,1,1,1,1,1,1,1,1,1>>,
     <<1,3,2,2,1,2,2,2,2,2,2,2,2,2,2,1,2,2,3,1>>,
     <<1,2,1,2,1,2,1,1,1,1,1,1,1,1,2,1,2,1,2,1>>,
     <<1,2,1,2,2,2,2,2,2,1,1,2,2,2,2,2,2,1,2,1>>,
     <<1,2,1,1,1,1,1,1,2,1,1,2,1,1,1,1,1,1,2,1>>,
     <<1,2,2,2,2,2,2,2,2,2,2,2,2,2,2,2,2,2,2,1>>,
     <<1,1,1,1,1,2,1,1,1,1,1,1,1,1,2,1,1,1,1,1>>,
     <<1,2,2,2,2,2,2,2,2,1,1,2,2,2,2,2,2,2,2,1>>,
     <<1,2,1,1,1,1,1,1,2,1,1,2,1,1,1,1,1,1,2,1>>,
     <<1,2,2,2,1,2,2,2,2,0,0,2,2,2,2,1,2,2,2,1>>,
     <<1,2,1,2,1,2,1,1,1,1,1,1,1,1,2,1,2,1,2,1>>,
     <<1,2,1,2,2,2,1,2,2,2,2,2,2,1,2,2,2,1,2,1>>,
     <<1,2,1,1,1,2,1,2,1,1,1,1,2,1,2,1,1,1,2,1>>,
     <<1,2,2,2,2,2,2,2,2,1,1,2,2,2,2,2,2,2,2,1>>,
     <<1,1,1,1,1,2,1,1,1,1,1,1,1,1,2,1,1,1,1,1>>,
     <<1,2,2,2,2,2,2,2,2,2,2,2,2,2,2,2,2,2,2,1>>,
     <<1,2,1,1,1,1,1,1,2,1,1,2,1,1,1,1,1,1,2,1>>,
     <<1,2,2,2,2,2,2,2,2,1,1,2,2,2,2,2,2,2,2,1>>,
     <<1,2,1,1,1,2,1,1,1,1,1,1,1,1,2,1,1,1,2,1>>,
     <<1,3,2,2,2,2,2,2,2,2,2,2,2,2,2,2,2,2,3,1>>,
     <<1,1,1,1,1,1,1,1,1,1,1,1,1,1,1,1,1,1,1,1>> >>

\* LEVELS[i]: ghost_count, speed_multiplier (in tenths) and maze; index 0..2.
LEVELS ==
  [i \in 0..2 |->
     CASE i = 0 -> [ghost_count |-> 2, speed_multiplier10 |-> 10, maze |-> Level1Maze]
       [] i = 1 -> [ghost_count |-> 3, speed_multiplier10 |-> 13, maze |-> Level2Maze]
       [] i = 2 -> [ghost_count |-> 4, speed_multiplier10 |-> 16, maze |-> Level3Maze]]

NumLevels == 3

\* ------------------------------------------------------------ maze access
\* len(maze), len(maze[0]); maze[my][mx] with Python's 0-based indices.
Rows(maze) == Len(maze)

Cols(maze) == Len(maze[1])

InRange(maze, mx, my) == 0 <= my /\ my < Rows(maze) /\ 0 <= mx /\ mx < Cols(maze)

Cell(maze, mx, my) == maze[my + 1][mx + 1]

\* int(v // CELL_SIZE): floor division
TileOf(v) == v \div CELL_SIZE

\* ------------------------------------------------------------ VARIABLES
VARIABLES
  levels,             \* the module-level list LEVELS, as setup_level reads it
  state,              \* Game.state: "MAIN_MENU", "LEVEL_SELECT", "SETTINGS", "PLAYING",
                      \*             "PAUSED"
  selected_level,     \* Game.selected_level
  maze,               \* Game.maze
  pacman,             \* Game.pacman: x, y, start_x, start_y, direction, next_direction, speed
  ghosts,             \* Game.ghosts: sequence of x, y, start_x, start_y, direction, speed,
                      \*              frightened, frightened_timer
  score,              \* Game.score
  lives,              \* Game.lives
  game_over,          \* Game.game_over
  win,                \* Game.win
  pellets_remaining,  \* Game.pellets_remaining
  high_score,         \* Game.high_score
  ticks,              \* number of update_game calls made so far
  events,             \* the steps the last update_game call performed, in order
  mid,                \* maze, score, pellets_remaining and ghosts right after the
                      \* pickup step (line 1109) of the last update_game call
  evading             \* per ghost: the number of update_game calls in a row that
                      \* have left it frightened, counted from the power pickup

vars == <<levels, state, selected_level, maze, pacman, ghosts, score, lives, game_over, win,
          pellets_remaining, high_score, ticks, events, mid, evading>>

histVars == <<ticks, events, mid, evading>>


\* ------------------------------------------------------------ PacMan
\* PacMan.__init__(x, y)
NewPacMan(x, y) ==
  [x |-> x, y |-> y, start_x |-> x, start_y |-> y,
   direction |-> "RIGHT", next_direction |-> "NONE", speed |-> PACMAN_SPEED]

\* One sampled corner of PacMan.check_collision: inside the grid and a wall.
\* A corner outside the grid is skipped (not blocking).
PacCornerBlocked(cx, cy, mz) ==
  LET mx == TileOf(cx)
      my == TileOf(cy)
  IN  InRange(mz, mx, my) /\ Cell(mz, mx, my) = 1

\* check_collision as it would be if it tested the centre point in place
\* of the four corners of lines 361-366.
PacCheckCentre(x, y, mz) == PacCornerBlocked(x, y, mz)

\* PacMan.check_collision(x, y, maze)
PacCheckCollision(x, y, mz) ==
  LET r == PACMAN_RADIUS - PACMAN_MARGIN
  IN  \/ PacCornerBlocked(x - r, y - r, mz)
      \/ PacCornerBlocked(x + r, y - r, mz)
      \/ PacCornerBlocked(x - r, y + r, mz)
      \/ PacCornerBlocked(x + r, y + r, mz)

\* The wrap at the end of PacMan.update and Ghost.update.
WrapX(x) == IF x < 0 THEN SCREEN_WIDTH ELSE IF x > SCREEN_WIDTH THEN 0 ELSE x

\* PacMan.update as it would be without the test of line 332: the facing
\* becomes next_direction whenever one is queued.
PacManTurnUntested(p, mz) ==
  LET dir == IF p.next_direction # "NONE" THEN p.next_direction ELSE p.direction
      nx  == p.x + DX(dir) * p.speed
      ny  == p.y + DY(dir) * p.speed
      go  == dir # "NONE" /\ ~PacCheckCollision(nx, ny, mz)
  IN  [p EXCEPT !.direction = dir,
                !.x = WrapX(IF go THEN nx ELSE p.x),
                !.y = IF go THEN ny ELSE p.y]

\* PacMan.update(maze): turn into next_direction if that step is free, then
\* step in direction if that step is free, then wrap.
PacManUpdate(p, mz) ==
  LET turn == /\ p.next_direction # "NONE"
              /\ ~PacCheckCollision(p.x + DX(p.next_direction) * p.speed,
                                    p.y + DY(p.next_direction) * p.speed, mz)
      dir  == IF turn THEN p.next_direction ELSE p.direction
      nx   == p.x + DX(dir) * p.speed
      ny   == p.y + DY(dir) * p.speed
      go   == dir # "NONE" /\ ~PacCheckCollision(nx, ny, mz)
  IN  [p EXCEPT !.direction = dir,
                !.x = WrapX(IF go THEN nx ELSE p.x),
                !.y = IF go THEN ny ELSE p.y]

\* PacMan.reset_position()
PacManReset(p) == [p EXCEPT !.x = p.start_x, !.y = p.start_y, !.direction = "NONE"]

\* ------------------------------------------------------------ Ghost
\* Ghost.__init__(x, y, color, name)
NewGhost(x, y) ==
  [x |-> x, y |-> y, start_x |-> x, start_y |-> y, direction |-> "RIGHT",
   speed |-> GHOST_SPEED, frightened |-> FALSE, frightened_timer |-> 0]

\* Ghost.check_collision as it would be without the wall test: only a point
\* outside the grid is blocking.
GhostCheckRangeOnly(x, y, mz) == ~InRange(mz, TileOf(x), TileOf(y))

\* Ghost.check_collision(x, y, maze): the centre point only; outside the grid
\* is blocking.
GhostCheckCollision(x, y, mz) ==
  LET mx == TileOf(x)
      my == TileOf(y)
  IN  IF InRange(mz, mx, my) THEN Cell(mz, mx, my) = 1 ELSE TRUE

Abs(v) == IF v < 0 THEN -v ELSE v

\* The direction chase_pacman / flee_from_pacman prefer for the delta (dx, dy).
PreferredDir(dx, dy) ==
  IF Abs(dx) > Abs(dy)
  THEN (IF dx > 0 THEN "RIGHT" ELSE "LEFT")
  ELSE (IF dy > 0 THEN "DOWN" ELSE "UP")

\* The 5x-speed lookahead test shared by chase, flee and the random fallback.
LookaheadBlocked(g, d, mz) ==
  GhostCheckCollision(g.x + DX(d) * g.speed * 5, g.y + DY(d) * g.speed * 5, mz)

\* chase_pacman as it would be without the lookahead test of line 472: the
\* ghost always faces its preferred direction.
ChasePacmanUntested(g, mz, p) ==
  [g EXCEPT !.direction = PreferredDir(p.x - g.x, p.y - g.y)]

\* Ghost.chase_pacman(maze, pacman)
ChasePacman(g, mz, p) ==
  LET new_dir == PreferredDir(p.x - g.x, p.y - g.y)
  IN  IF ~LookaheadBlocked(g, new_dir, mz) THEN [g EXCEPT !.direction = new_dir] ELSE g

\* Ghost.flee_from_pacman(maze, pacman)
FleeFromPacman(g, mz, p) ==
  LET new_dir == PreferredDir(g.x - p.x, g.y - p.y)
  IN  IF ~LookaheadBlocked(g, new_dir, mz) THEN [g EXCEPT !.direction = new_dir] ELSE g

\* choose_random_direction as it would be without the lookahead test of
\* line 497: the first direction of the shuffled order.
ChooseFirstShuffled(g, mz, q) == [g EXCEPT !.direction = q[1]]

\* The outcomes of random.shuffle on [UP, DOWN, LEFT, RIGHT].
Shuffles ==
  {q \in [1..4 -> Directions] : \A i, j \in 1..4 : q[i] = q[j] => i = j}

\* Ghost.choose_random_direction(maze) for the shuffled order q: the first
\* direction of q whose lookahead is free; none, and the facing stays.
ChooseRandomDirection(g, mz, q) ==
  LET free == {i \in 1..4 : ~LookaheadBlocked(g, q[i], mz)}
  IN  IF free = {} THEN g
      ELSE [g EXCEPT !.direction = q[CHOOSE i \in free : \A j \in free : i <= j]]

\* The countdown at the head of Ghost.update.
GhostTimer(g) ==
  IF g.frightened
  THEN LET t == g.frightened_timer - 1
       IN  IF t <= 0
           THEN [g EXCEPT !.frightened_timer = t, !.frightened = FALSE, !.speed = GHOST_SPEED]
           ELSE [g EXCEPT !.frightened_timer = t]
  ELSE g

\* Ghost.update as it would be if the test of line 441 could go either way
\* for a step that is free: the ghost steps, or stays and draws a shuffle.
GhostUpdateEitherWay(g, mz, p) ==
  LET g1 == GhostTimer(g)
      g2 == IF ~g1.frightened THEN ChasePacman(g1, mz, p) ELSE FleeFromPacman(g1, mz, p)
      nx == g2.x + DX(g2.direction) * g2.speed
      ny == g2.y + DY(g2.direction) * g2.speed
      stay == {[g3 EXCEPT !.x = WrapX(g3.x)] :
                 g3 \in {ChooseRandomDirection(g2, mz, q) : q \in Shuffles}}
  IN  IF ~GhostCheckCollision(nx, ny, mz)
      THEN {[g2 EXCEPT !.x = WrapX(nx), !.y = ny]} \cup stay
      ELSE stay

\* Ghost.update(maze, pacman): the set of results over the shuffle outcomes
\* (the shuffle is only drawn when the move is blocked).
GhostUpdate(g, mz, p) ==
  LET g1 == GhostTimer(g)
      g2 == IF ~g1.frightened THEN ChasePacman(g1, mz, p) ELSE FleeFromPacman(g1, mz, p)
      nx == g2.x + DX(g2.direction) * g2.speed
      ny == g2.y + DY(g2.direction) * g2.speed
  IN  IF ~GhostCheckCollision(nx, ny, mz)
      THEN {[g2 EXCEPT !.x = WrapX(nx), !.y = ny]}
      ELSE {[g3 EXCEPT !.x = WrapX(g3.x)] : g3 \in {ChooseRandomDirection(g2, mz, q) : q \in Shuffles}}

\* set_frightened as it would be if a ghost that is already frightened kept
\* its running countdown.
SetFrightenedOnce(g, duration) ==
  IF g.frightened THEN g
  ELSE [g EXCEPT !.frightened = TRUE, !.frightened_timer = duration, !.speed = FRIGHTENED_SPEED]

\* Ghost.set_frightened(duration)
SetFrightened(g, duration) ==
  [g EXCEPT !.frightened = TRUE, !.frightened_timer = duration, !.speed = FRIGHTENED_SPEED]

\* reset_position as it would be without its line 518 (frightened = False).
GhostResetKeepsMode(g) == [g EXCEPT !.x = g.start_x, !.y = g.start_y]

\* Ghost.reset_position()
GhostReset(g) == [g EXCEPT !.x = g.start_x, !.y = g.start_y, !.frightened = FALSE]


\* find_spawn as it would be if the scan began at row 0 (range(len(maze))
\* at line 995).
FindSpawnFromTop(mz) ==
  LET open == {c \in (0..(Rows(mz) - 1)) \X (0..(Cols(mz) - 1)) :
                 Cell(mz, c[2], c[1]) \in {0, 2, 3}}
  IN  IF open = {} THEN <<300 * PX, 450 * PX>>
      ELSE LET c == CHOOSE a \in open :
                      \A b \in open : a[1] < b[1] \/ (a[1] = b[1] /\ a[2] <= b[2])
           IN  <<c[2] * CELL_SIZE + CELL_SIZE \div 2, c[1] * CELL_SIZE + CELL_SIZE \div 2>>

\* ------------------------------------------------------------ Session
\* Game.find_spawn(): centre of the first non-wall tile, row-major from row
\* len(maze) // 2; (300, 450) when there is none.
FindSpawn(mz) ==
  LET open == {c \in ((Rows(mz) \div 2)..(Rows(mz) - 1)) \X (0..(Cols(mz) - 1)) :
                 Cell(mz, c[2], c[1]) \in {0, 2, 3}}
  IN  IF open = {} THEN <<300 * PX, 450 * PX>>
      ELSE LET c == CHOOSE a \in open :
                      \A b \in open : a[1] < b[1] \/ (a[1] = b[1] /\ a[2] <= b[2])
           IN  <<c[2] * CELL_SIZE + CELL_SIZE \div 2, c[1] * CELL_SIZE + CELL_SIZE \div 2>>

\* sum(row.count(2) + row.count(3) for row in maze)
CountPellets(mz) ==
  Cardinality({c \in (0..(Rows(mz) - 1)) \X (0..(Cols(mz) - 1)) :
                 Cell(mz, c[2], c[1]) \in {2, 3}})

\* The ghosts setup_level builds for a level.
LevelGhosts(level) ==
  [i \in 1..level.ghost_count |->
     [NewGhost(CELL_SIZE * (9 + (i - 1)), CELL_SIZE * 9)
        EXCEPT !.speed = (GHOST_SPEED * level.speed_multiplier10) \div 10]]

\* The session fields as one record, for the steps of update_game.
Session ==
  [maze |-> maze, pacman |-> pacman, ghosts |-> ghosts, score |-> score,
   lives |-> lives, game_over |-> game_over, win |-> win,
   pellets_remaining |-> pellets_remaining, high_score |-> high_score]

\* Lines 969-988 of setup_level for the entry level of the level list (the
\* maze is copied row by row, high_score is kept).
SetupFrom(level, hs) ==
  LET spawn == FindSpawn(level.maze)
  IN  [maze |-> level.maze,
       pacman |-> NewPacMan(spawn[1], spawn[2]),
       ghosts |-> LevelGhosts(level),
       score |-> 0, lives |-> START_LIVES, game_over |-> FALSE, win |-> FALSE,
       pellets_remaining |-> CountPellets(level.maze),
       high_score |-> hs]

\* Game.setup_level(level_idx) on the shipped LEVELS: the session it builds.
SetupLevel(level_idx, hs) == SetupFrom(LEVELS[level_idx], hs)

\* len(LEVELS) as the handlers read it.
LevelCount == Cardinality(DOMAIN levels)

\* ------------------------------------------------------------ update_game
Ev(e, g) == [e |-> e, g |-> g]

\* update_game as it would be without the early return of lines 1087-1088.
IsOverNever(s) == FALSE

\* The early return of update_game.
IsOver(s) == s.game_over \/ s.win

\* The pellet branch as it would be without line 1099 (pellets_remaining -= 1).
EatPelletUncounted(s, mx, my) ==
  [s EXCEPT !.maze[my + 1][mx + 1] = 0,
            !.score = @ + PELLET_SCORE]

\* Lines 1095-1101: a pellet on tile (mx, my) is eaten.
EatPellet(s, mx, my) ==
  [s EXCEPT !.maze[my + 1][mx + 1] = 0,
            !.score = @ + PELLET_SCORE,
            !.pellets_remaining = @ - 1]

\* The power pellet branch as it would be without line 1105
\* (pellets_remaining -= 1).
EatPowerUncounted(s, mx, my) ==
  [s EXCEPT !.maze[my + 1][mx + 1] = 0,
            !.score = @ + POWER_SCORE,
            !.ghosts = [i \in DOMAIN s.ghosts |->
                          SetFrightened(s.ghosts[i], FRIGHTENED_DURATION)]]

\* Lines 1102-1109: a power pellet on tile (mx, my) is eaten.
EatPower(s, mx, my) ==
  [s EXCEPT !.maze[my + 1][mx + 1] = 0,
            !.score = @ + POWER_SCORE,
            !.pellets_remaining = @ - 1,
            !.ghosts = [i \in DOMAIN s.ghosts |->
                          SetFrightened(s.ghosts[i], FRIGHTENED_DURATION)]]

\* The pickup as it would be if every tile but a wall counted as a pellet
\* (test != 1 in place of == 2 at line 1096).
PickupNotWall(s) ==
  LET mx == TileOf(s.pacman.x)
      my == TileOf(s.pacman.y)
      kind == IF InRange(s.maze, mx, my) THEN Cell(s.maze, mx, my) ELSE 1
  IN  IF kind = 3
      THEN [s |-> EatPower(s, mx, my),
            ev |-> <<Ev("power", Cardinality({i \in DOMAIN s.ghosts : s.ghosts[i].frightened}))>>]
      ELSE IF kind # 1
      THEN [s |-> EatPellet(s, mx, my), ev |-> <<Ev("eat", 0)>>]
      ELSE [s |-> s, ev |-> <<>>]

\* Lines 1092-1109: the pickup on the player's tile.  Returns the session and
\* the events of the step; a "power" event records how many ghosts were
\* already frightened when the power pellet was eaten.
Pickup(s) ==
  LET mx == TileOf(s.pacman.x)
      my == TileOf(s.pacman.y)
      kind == IF InRange(s.maze, mx, my) THEN Cell(s.maze, mx, my) ELSE 0
  IN  IF kind = 2
      THEN [s |-> EatPellet(s, mx, my), ev |-> <<Ev("eat", 0)>>]
      ELSE IF kind = 3
      THEN [s |-> EatPower(s, mx, my),
            ev |-> <<Ev("power", Cardinality({i \in DOMAIN s.ghosts : s.ghosts[i].frightened}))>>]
      ELSE [s |-> s, ev |-> <<>>]

\* if self.score > self.high_score: self.high_score = self.score
UpdateHighScore(s) == IF s.score > s.high_score THEN [s EXCEPT !.high_score = s.score] ELSE s

\* The win check as it would be with the test pellets_remaining <= 1.
WinCheckEarly(s) ==
  IF s.pellets_remaining <= 1
  THEN [s |-> UpdateHighScore([s EXCEPT !.win = TRUE]), ev |-> <<Ev("win", 0)>>]
  ELSE [s |-> s, ev |-> <<>>]

\* Lines 1111-1115: the win check.
WinCheck(s) ==
  IF s.pellets_remaining = 0
  THEN [s |-> UpdateHighScore([s EXCEPT !.win = TRUE]), ev |-> <<Ev("win", 0)>>]
  ELSE [s |-> s, ev |-> <<>>]

\* dist < CELL_SIZE * 0.7, on squares
InCollisionRange(p, g) ==
  (p.x - g.x) * (p.x - g.x) + (p.y - g.y) * (p.y - g.y) < COLLISION_DIST * COLLISION_DIST

\* Lines 1120-1141: the proximity check of ghost i, after its update.
Proximity(s, i) ==
  LET g == s.ghosts[i]
  IN  IF ~InCollisionRange(s.pacman, g) THEN [s |-> s, ev |-> <<>>]
      ELSE IF g.frightened
      THEN [s |-> [s EXCEPT !.score = @ + GHOST_SCORE, !.ghosts[i] = GhostReset(g)],
            ev |-> <<Ev("capture", i)>>]
      ELSE LET s1 == [s EXCEPT !.lives = @ - 1]
           IN  IF s1.lives <= 0
               THEN [s |-> UpdateHighScore([s1 EXCEPT !.game_over = TRUE]),
                     ev |-> <<Ev("life_lost", i), Ev("game_over", i)>>]
               ELSE [s |-> [s1 EXCEPT !.pacman = PacManReset(@),
                                      !.ghosts = [j \in DOMAIN s.ghosts |->
                                                    GhostReset(s.ghosts[j])]],
                     ev |-> <<Ev("life_lost", i), Ev("reset", i)>>]

\* Lines 1117-1141: the loop over self.ghosts from ghost i on; the set of
\* results over the shuffle outcomes.  r is [s, ev].
RECURSIVE GhostLoop(_, _)
GhostLoop(r, i) ==
  IF i > Len(r.s.ghosts) THEN {r}
  ELSE UNION {
         LET s1 == [r.s EXCEPT !.ghosts[i] = g1]
             c  == Proximity(s1, i)
         IN  GhostLoop([s |-> c.s, ev |-> r.ev \o <<Ev("advance", i)>> \o c.ev], i + 1)
         : g1 \in GhostUpdate(r.s.ghosts[i], r.s.maze, r.s.pacman) }

\* The session values kept in mid.
MidOf(s) ==
  [maze |-> s.maze, score |-> s.score, pellets_remaining |-> s.pellets_remaining,
   ghosts |-> s.ghosts]

\* Game.update_game() from session s: the set of [s, ev, mid] it can end in.
UpdateGameFrom(s) ==
  IF IsOver(s) THEN {[s |-> s, ev |-> <<>>, mid |-> MidOf(s)]}
  ELSE LET s1 == [s EXCEPT !.pacman = PacManUpdate(s.pacman, s.maze)]
           a  == Pickup(s1)
           b  == WinCheck(a.s)
       IN  {[s |-> r.s, ev |-> r.ev, mid |-> MidOf(a.s)] :
              r \in GhostLoop([s |-> b.s, ev |-> <<Ev("pacman", 0)>> \o a.ev \o b.ev], 1)}


\* ------------------------------------------------------------ actions
\* Assign the session fields from record s.
SetSession(s) ==
  /\ maze' = s.maze
  /\ pacman' = s.pacman
  /\ ghosts' = s.ghosts
  /\ score' = s.score
  /\ lives' = s.lives
  /\ game_over' = s.game_over
  /\ win' = s.win
  /\ pellets_remaining' = s.pellets_remaining
  /\ high_score' = s.high_score

sessionVars == <<maze, pacman, ghosts, score, lives, game_over, win,
                 pellets_remaining, high_score>>

\* setup_level as it would be if a restart of the level in play kept the
\* grid of the session in place of a copy of the template (line 971).
DoSetupKeepsGrid(level_idx) ==
  LET fresh == SetupFrom(levels[level_idx], high_score)
      s == IF level_idx = selected_level
           THEN [fresh EXCEPT !.maze = maze, !.pellets_remaining = CountPellets(maze)]
           ELSE fresh
  IN  /\ selected_level' = level_idx
      /\ SetSession(s)
      /\ state' = "PLAYING"
      /\ events' = <<>>
      /\ mid' = MidOf(s)
      /\ evading' = [i \in DOMAIN s.ghosts |-> 0]
      /\ UNCHANGED <<levels, ticks>>

\* Game.setup_level(level_idx) as a step; the records of the last update_game
\* call are cleared with the session they were about.
DoSetupLevel(level_idx) ==
  LET s == SetupFrom(levels[level_idx], high_score)
  IN  /\ selected_level' = level_idx
      /\ SetSession(s)
      /\ state' = "PLAYING"
      /\ events' = <<>>
      /\ mid' = MidOf(s)
      /\ evading' = [i \in DOMAIN s.ghosts |-> 0]
      /\ UNCHANGED <<levels, ticks>>

HasEvent(ev, e) == \E k \in DOMAIN ev : ev[k].e = e

\* The count kept in evading after an update_game call that ended in r.
CountEvading(r) ==
  IF r.ev = <<>> THEN evading
  ELSE [i \in DOMAIN r.s.ghosts |->
          IF ~r.s.ghosts[i].frightened THEN 0
          ELSE IF HasEvent(r.ev, "power") THEN 1
          ELSE evading[i] + 1]

\* The frame as it would be if update_game were called in every state
\* (without the test of line 1250).
FrameAlways(bound) ==
  /\ state \in {"PLAYING", "PAUSED"}
  /\ ticks < bound
  /\ \E r \in UpdateGameFrom(Session) :
       /\ SetSession(r.s)
       /\ events' = r.ev
       /\ mid' = r.mid
       /\ evading' = CountEvading(r)
  /\ ticks' = ticks + 1
  /\ UNCHANGED <<levels, state, selected_level>>

\* Game.run, state PLAYING: one frame calls update_game; at most bound frames.
Frame(bound) ==
  /\ state = "PLAYING"
  /\ ticks < bound
  /\ \E r \in UpdateGameFrom(Session) :
       /\ SetSession(r.s)
       /\ events' = r.ev
       /\ mid' = r.mid
       /\ evading' = CountEvading(r)
  /\ ticks' = ticks + 1
  /\ UNCHANGED <<levels, state, selected_level>>

UpdateGame == Frame(MaxTicks)

Keys == {"K_r", "K_ESCAPE", "K_RETURN", "K_UP", "K_DOWN", "K_LEFT", "K_RIGHT"}

KeyDirection(key) ==
  CASE key = "K_UP" -> "UP" [] key = "K_DOWN" -> "DOWN"
    [] key = "K_LEFT" -> "LEFT" [] key = "K_RIGHT" -> "RIGHT"

\* Game.handle_game_input(event) for a KEYDOWN of key, state PLAYING.
\* (w/a/s/d are the arrow keys; a key with no branch changes nothing.)
HandleGameInput ==
  /\ state = "PLAYING"
  /\ \E key \in Keys :
       IF game_over \/ win
       THEN CASE key = "K_r" -> DoSetupLevel(selected_level)
              [] key = "K_ESCAPE" ->
                   /\ state' = "MAIN_MENU"
                   /\ UNCHANGED <<levels, selected_level, sessionVars, histVars>>
              [] key = "K_RETURN" /\ win -> DoSetupLevel((selected_level + 1) % LevelCount)
              [] OTHER -> UNCHANGED vars
       ELSE CASE key = "K_ESCAPE" ->
                   /\ state' = "PAUSED"
                   /\ UNCHANGED <<levels, selected_level, sessionVars, histVars>>
              [] key \in {"K_UP", "K_DOWN", "K_LEFT", "K_RIGHT"} ->
                   /\ pacman' = [pacman EXCEPT !.next_direction = KeyDirection(key)]
                   /\ UNCHANGED <<state, selected_level, maze, ghosts, score, lives,
                                  game_over, win, pellets_remaining, high_score,
                                  levels, histVars>>
              [] OTHER -> UNCHANGED vars

\* Game.handle_pause_input(event), state PAUSED: the resume, restart and menu
\* buttons, and a KEYDOWN (Escape resumes, any other key has no branch).
HandlePauseInput ==
  /\ state = "PAUSED"
  /\ \E what \in {"resume_button", "restart_button", "menu_button"} \cup Keys :
       CASE what \in {"resume_button", "K_ESCAPE"} ->
              /\ state' = "PLAYING"
              /\ UNCHANGED <<levels, selected_level, sessionVars, histVars>>
         [] what = "restart_button" -> DoSetupLevel(selected_level)
         [] what = "menu_button" ->
              /\ state' = "MAIN_MENU"
              /\ UNCHANGED <<levels, selected_level, sessionVars, histVars>>
         [] OTHER -> UNCHANGED vars

\* Game.handle_menu_input(event), states MAIN_MENU, LEVEL_SELECT and SETTINGS:
\* the play, level-select, settings, level and back buttons.  (The quit
\* button ends the program; the sliders of SETTINGS set sound volumes only.)
HandleMenuInput ==
  \/ /\ state = "MAIN_MENU"
     /\ \E what \in {"play_button", "level_select_button", "settings_button"} :
          IF what = "play_button" THEN DoSetupLevel(0)
          ELSE /\ state' = (IF what = "level_select_button" THEN "LEVEL_SELECT" ELSE "SETTINGS")
               /\ UNCHANGED <<levels, selected_level, sessionVars, histVars>>
  \/ /\ state = "LEVEL_SELECT"
     /\ \/ \E i \in 0..(LevelCount - 1) : DoSetupLevel(i)
        \/ /\ state' = "MAIN_MENU"
           /\ UNCHANGED <<levels, selected_level, sessionVars, histVars>>
  \/ /\ state = "SETTINGS"
     /\ state' = "MAIN_MENU"
     /\ UNCHANGED <<levels, selected_level, sessionVars, histVars>>

\* ------------------------------------------------------------ initial states
\* Level 1 in play: one life left, both ghosts Pursuing and close together
\* next to the player (a session the code reaches from setup_level(0)).
SnapDouble ==
  [maze |->
       <<
         <<1,1,1,1,1,1,1,1,1,1,1,1,1,1,1,1,1,1,1,1>>,
         <<1,2,2,2,2,2,2,2,2,1,1,0,0,0,0,0,0,0,0,1>>,
         <<1,3,1,1,2,1,1,1,2,1,1,0,1,1,1,0,1,1,3,1>>,
         <<1,2,2,2,2,2,2,2,2,2,2,0,0,0,0,0,0,0,0,1>>,
         <<1,2,1,1,2,1,2,1,1,1,1,1,1,2,1,0,1,1,0,1>>,
         <<1,2,2,2,2,1,2,2,2,1,1,2,2,2,1,0,0,0,0,1>>,
         <<1,1,1,1,2,1,1,1,2,1,1,2,1,1,1,0,1,1,1,1>>,
         <<1,0,0,0,0,0,0,0,0,0,2,2,2,2,2,0,0,0,0,1>>,
         <<1,0,1,1,2,1,2,1,1,0,0,1,1,2,1,0,1,1,0,1>>,
         <<1,0,0,0,0,0,0,1,0,0,0,0,1,2,2,0,0,0,0,1>>,
         <<1,0,1,1,0,1,0,1,1,1,1,1,1,2,1,0,1,1,0,1>>,
         <<1,0,0,0,0,0,0,0,0,0,0,0,0,0,0,0,0,0,0,1>>,
         <<1,1,1,1,2,1,1,1,0,1,1,0,1,1,1,0,1,1,1,1>>,
         <<1,2,2,2,2,1,2,2,2,1,1,2,2,2,1,2,2,2,2,1>>,
         <<1,2,1,1,2,1,1,1,2,1,1,2,1,1,1,2,1,1,2,1>>,
         <<1,3,2,1,2,2,2,2,2,2,2,2,2,2,2,2,1,2,3,1>>,
         <<1,1,2,1,2,1,2,1,1,1,1,1,1,2,1,2,1,2,1,1>>,
         <<1,2,2,2,2,1,2,2,2,1,1,2,2,2,1,2,2,2,2,1>>,
         <<1,2,1,1,1,1,1,1,2,1,1,2,1,1,1,1,1,1,2,1>>,
         <<1,2,2,2,2,2,2,2,2,2,2,2,2,2,2,2,2,2,2,1>>,
         <<1,1,1,1,1,1,1,1,1,1,1,1,1,1,1,1,1,1,1,1>> >>,
   pacman |-> [x |-> 8650, y |-> 2200, start_x |-> 900, start_y |-> 6300,
               direction |-> "DOWN", next_direction |-> "DOWN", speed |-> 50],
   ghosts |->
       <<
         [x |-> 8190, y |-> 2490, start_x |-> 5400, start_y |-> 5400, direction |-> "RIGHT",
          speed |-> 30, frightened |-> FALSE, frightened_timer |-> 0],
         [x |-> 8190, y |-> 2460, start_x |-> 6000, start_y |-> 5400, direction |-> "RIGHT",
          speed |-> 30, frightened |-> FALSE, frightened_timer |-> 0] >>,
   score |-> 770, lives |-> 1, game_over |-> FALSE, win |-> FALSE,
   pellets_remaining |-> 129, high_score |-> 0]

\* Level 1 in play: three lives, both ghosts Pursuing and just outside the
\* collision range of the player, who is walking towards them.
SnapKill ==
  [maze |->
       <<
         <<1,1,1,1,1,1,1,1,1,1,1,1,1,1,1,1,1,1,1,1>>,
         <<1,2,2,2,2,2,2,2,2,1,1,2,2,2,2,2,2,2,2,1>>,
         <<1,3,1,1,0,1,1,1,2,1,1,2,1,1,1,2,1,1,3,1>>,
         <<1,2,2,2,0,0,0,2,2,2,2,2,2,2,2,2,2,2,2,1>>,
         <<1,2,1,1,2,1,0,1,1,1,1,1,1,2,1,2,1,1,2,1>>,
         <<1,2,2,2,2,1,0,0,0,1,1,2,2,2,1,2,2,2,2,1>>,
         <<1,1,1,1,2,1,1,1,0,1,1,2,1,1,1,2,1,1,1,1>>,
         <<1,0,0,0,0,0,0,0,0,0,2,2,2,2,2,2,2,2,2,1>>,
         <<1,0,1,1,2,1,2,1,1,0,0,1,1,2,1,2,1,1,2,1>>,
         <<1,0,2,2,2,2,2,1,0,0,0,0,1,2,2,2,2,2,2,1>>,
         <<1,0,1,1,2,1,2,1,1,1,1,1,1,2,1,2,1,1,2,1>>,
         <<1,2,2,2,2,2,2,2,2,2,2,2,2,2,2,2,2,2,2,1>>,
         <<1,1,1,1,2,1,1,1,2,1,1,2,1,1,1,2,1,1,1,1>>,
         <<1,2,2,2,2,1,2,2,2,1,1,2,2,2,1,2,2,2,2,1>>,
         <<1,2,1,1,2,1,1,1,2,1,1,2,1,1,1,2,1,1,2,1>>,
         <<1,3,2,1,2,2,2,2,2,2,2,2,2,2,2,2,1,2,3,1>>,
         <<1,1,2,1,2,1,2,1,1,1,1,1,1,2,1,2,1,2,1,1>>,
         <<1,2,2,2,2,1,2,2,2,1,1,2,2,2,1,2,2,2,2,1>>,
         <<1,2,1,1,1,1,1,1,2,1,1,2,1,1,1,1,1,1,2,1>>,
         <<1,2,2,2,2,2,2,2,2,2,2,2,2,2,2,2,2,2,2,1>>,
         <<1,1,1,1,1,1,1,1,1,1,1,1,1,1,1,1,1,1,1,1>> >>,
   pacman |-> [x |-> 2800, y |-> 1400, start_x |-> 900, start_y |-> 6300,
               direction |-> "DOWN", next_direction |-> "DOWN", speed |-> 50],
   ghosts |->
       <<
         [x |-> 3030, y |-> 1800, start_x |-> 5400, start_y |-> 5400, direction |-> "LEFT",
          speed |-> 30, frightened |-> FALSE, frightened_timer |-> 0],
         [x |-> 3000, y |-> 1800, start_x |-> 6000, start_y |-> 5400, direction |-> "LEFT",
          speed |-> 30, frightened |-> FALSE, frightened_timer |-> 0] >>,
   score |-> 210, lives |-> 3, game_over |-> FALSE, win |-> FALSE,
   pellets_remaining |-> 185, high_score |-> 0]

\* Level 1 in play: one life and one pellet left, the player one step from
\* the last pellet with a Pursuing ghost closing in from below.
SnapEnd ==
  [maze |->
       <<
         <<1,1,1,1,1,1,1,1,1,1,1,1,1,1,1,1,1,1,1,1>>,
         <<1,0,0,0,0,0,0,0,0,1,1,0,0,0,0,0,0,0,0,1>>,
         <<1,0,1,1,0,1,1,1,0,1,1,0,1,1,1,0,1,1,0,1>>,
         <<1,0,0,0,0,0,0,0,0,0,0,0,0,0,0,0,0,0,0,1>>,
         <<1,0,1,1,0,1,0,1,1,1,1,1,1,0,1,0,1,1,0,1>>,
         <<1,0,0,0,0,1,0,0,0,1,1,0,0,0,1,0,0,0,0,1>>,
         <<1,1,1,1,0,1,1,1,0,1,1,0,1,1,1,0,1,1,1,1>>,
         <<1,0,0,0,0,0,0,0,0,2,0,0,0,0,0,0,0,0,0,1>>,
         <<1,0,1,1,0,1,0,1,1,0,0,1,1,0,1,0,1,1,0,1>>,
         <<1,0,0,0,0,0,0,1,0,0,0,0,1,0,0,0,0,0,0,1>>,
         <<1,0,1,1,0,1,0,1,1,1,1,1,1,0,1,0,1,1,0,1>>,
         <<1,0,0,0,0,0,0,0,0,0,0,0,0,0,0,0,0,0,0,1>>,
         <<1,1,1,1,0,1,1,1,0,1,1,0,1,1,1,0,1,1,1,1>>,
         <<1,0,0,0,0,1,0,0,0,1,1,0,0,0,1,0,0,0,0,1>>,
         <<1,0,1,1,0,1,1,1,0,1,1,0,1,1,1,0,1,1,0,1>>,
         <<1,0,0,1,0,0,0,0,0,0,0,0,0,0,0,0,1,0,0,1>>,
         <<1,1,0,1,0,1,0,1,1,1,1,1,1,0,1,0,1,0,1,1>>,
         <<1,0,0,0,0,1,0,0,0,1,1,0,0,0,1,0,0,0,0,1>>,
         <<1,0,1,1,1,1,1,1,0,1,1,0,1,1,1,1,1,1,0,1>>,
         <<1,0,0,0,0,0,0,0,0,0,0,0,0,0,0,0,0,0,0,1>>,
         <<1,1,1,1,1,1,1,1,1,1,1,1,1,1,1,1,1,1,1,1>> >>,
   pacman |-> [x |-> 5350, y |-> 4500, start_x |-> 900, start_y |-> 6300,
               direction |-> "DOWN", next_direction |-> "DOWN", speed |-> 50],
   ghosts |->
       <<
         [x |-> 5400, y |-> 4940, start_x |-> 5400, start_y |-> 5400, direction |-> "UP",
          speed |-> 30, frightened |-> FALSE, frightened_timer |-> 0],
         [x |-> 5390, y |-> 7710, start_x |-> 6000, start_y |-> 5400, direction |-> "UP",
          speed |-> 30, frightened |-> FALSE, frightened_timer |-> 0] >>,
   score |-> 2210, lives |-> 1, game_over |-> FALSE, win |-> FALSE,
   pellets_remaining |-> 1, high_score |-> 0]

\* Level 1 in play: the player one step below the power pellet of tile
\* (1, 2) and moving up, both ghosts Pursuing around the ghost house.
SnapPower ==
  [maze |->
       <<
         <<1,1,1,1,1,1,1,1,1,1,1,1,1,1,1,1,1,1,1,1>>,
         <<1,2,2,2,2,2,2,2,2,1,1,2,2,2,2,2,2,2,2,1>>,
         <<1,3,1,1,2,1,1,1,2,1,1,2,1,1,1,2,1,1,3,1>>,
         <<1,0,0,0,0,2,2,2,2,2,2,2,2,2,2,2,2,2,2,1>>,
         <<1,2,1,1,0,1,2,1,1,1,1,1,1,2,1,2,1,1,2,1>>,
         <<1,2,2,2,0,1,2,2,2,1,1,2,2,2,1,2,2,2,2,1>>,
         <<1,1,1,1,0,1,1,1,2,1,1,2,1,1,1,2,1,1,1,1>>,
         <<1,0,0,0,0,2,2,2,2,2,2,2,2,2,2,2,2,2,2,1>>,
         <<1,0,1,1,2,1,2,1,1,0,0,1,1,2,1,2,1,1,2,1>>,
         <<1,0,2,2,2,2,2,1,0,0,0,0,1,2,2,2,2,2,2,1>>,
         <<1,0,1,1,2,1,2,1,1,1,1,1,1,2,1,2,1,1,2,1>>,
         <<1,2,2,2,2,2,2,2,2,2,2,2,2,2,2,2,2,2,2,1>>,
         <<1,1,1,1,2,1,1,1,2,1,1,2,1,1,1,2,1,1,1,1>>,
         <<1,2,2,2,2,1,2,2,2,1,1,2,2,2,1,2,2,2,2,1>>,
         <<1,2,1,1,2,1,1,1,2,1,1,2,1,1,1,2,1,1,2,1>>,
         <<1,3,2,1,2,2,2,2,2,2,2,2,2,2,2,2,1,2,3,1>>,
         <<1,1,2,1,2,1,2,1,1,1,1,1,1,2,1,2,1,2,1,1>>,
         <<1,2,2,2,2,1,2,2,2,1,1,2,2,2,1,2,2,2,2,1>>,
         <<1,2,1,1,1,1,1,1,2,1,1,2,1,1,1,1,1,1,2,1>>,
         <<1,2,2,2,2,2,2,2,2,2,2,2,2,2,2,2,2,2,2,1>>,
         <<1,1,1,1,1,1,1,1,1,1,1,1,1,1,1,1,1,1,1,1>> >>,
   pacman |-> [x |-> 1050, y |-> 1800, start_x |-> 900, start_y |-> 6300,
               direction |-> "UP", next_direction |-> "UP", speed |-> 50],
   ghosts |->
       <<
         [x |-> 4890, y |-> 5400, start_x |-> 5400, start_y |-> 5400, direction |-> "RIGHT",
          speed |-> 30, frightened |-> FALSE, frightened_timer |-> 0],
         [x |-> 5370, y |-> 4770, start_x |-> 6000, start_y |-> 5400, direction |-> "LEFT",
          speed |-> 30, frightened |-> FALSE, frightened_timer |-> 0] >>,
   score |-> 140, lives |-> 3, game_over |-> FALSE, win |-> FALSE,
   pellets_remaining |-> 192, high_score |-> 0]

\* Level 1 in play: both ghosts Evading with 94 ticks left, the player one
\* step below the next power pellet (tile (18, 2)) and moving up.
SnapRepower ==
  [maze |->
       <<
         <<1,1,1,1,1,1,1,1,1,1,1,1,1,1,1,1,1,1,1,1>>,
         <<1,2,2,2,2,2,2,2,2,1,1,2,2,2,2,2,2,2,2,1>>,
         <<1,0,1,1,2,1,1,1,2,1,1,2,1,1,1,2,1,1,3,1>>,
         <<1,0,0,0,0,0,0,0,0,0,0,0,0,0,0,0,0,0,0,1>>,
         <<1,2,1,1,0,1,2,1,1,1,1,1,1,2,1,2,1,1,2,1>>,
         <<1,2,2,2,0,1,2,2,2,1,1,2,2,2,1,2,2,2,2,1>>,
         <<1,1,1,1,0,1,1,1,2,1,1,2,1,1,1,2,1,1,1,1>>,
         <<1,0,0,0,0,2,2,2,2,2,2,2,2,2,2,2,2,2,2,1>>,
         <<1,0,1,1,2,1,2,1,1,0,0,1,1,2,1,2,1,1,2,1>>,
         <<1,0,2,2,2,2,2,1,0,0,0,0,1,2,2,2,2,2,2,1>>,
         <<1,0,1,1,2,1,2,1,1,1,1,1,1,2,1,2,1,1,2,1>>,
         <<1,2,2,2,2,2,2,2,2,2,2,2,2,2,2,2,2,2,2,1>>,
         <<1,1,1,1,2,1,1,1,2,1,1,2,1,1,1,2,1,1,1,1>>,
         <<1,2,2,2,2,1,2,2,2,1,1,2,2,2,1,2,2,2,2,1>>,
         <<1,2,1,1,2,1,1,1,2,1,1,2,1,1,1,2,1,1,2,1>>,
         <<1,3,2,1,2,2,2,2,2,2,2,2,2,2,2,2,1,2,3,1>>,
         <<1,1,2,1,2,1,2,1,1,1,1,1,1,2,1,2,1,2,1,1>>,
         <<1,2,2,2,2,1,2,2,2,1,1,2,2,2,1,2,2,2,2,1>>,
         <<1,2,1,1,1,1,1,1,2,1,1,2,1,1,1,1,1,1,2,1>>,
         <<1,2,2,2,2,2,2,2,2,2,2,2,2,2,2,2,2,2,2,1>>,
         <<1,1,1,1,1,1,1,1,1,1,1,1,1,1,1,1,1,1,1,1>> >>,
   pacman |-> [x |-> 10950, y |-> 1800, start_x |-> 900, start_y |-> 6300,
               direction |-> "UP", next_direction |-> "UP", speed |-> 50],
   ghosts |->
       <<
         [x |-> 6970, y |-> 5980, start_x |-> 5400, start_y |-> 5400, direction |-> "LEFT",
          speed |-> 20, frightened |-> TRUE, frightened_timer |-> 94],
         [x |-> 4810, y |-> 5970, start_x |-> 6000, start_y |-> 5400, direction |-> "UP",
          speed |-> 20, frightened |-> TRUE, frightened_timer |-> 94] >>,
   score |-> 330, lives |-> 3, game_over |-> FALSE, win |-> FALSE,
   pellets_remaining |-> 177, high_score |-> 0]

\* Level 1 in play: both ghosts Evading with 80 ticks left, the player
\* running into them in the ghost house.
SnapCapture ==
  [maze |->
       <<
         <<1,1,1,1,1,1,1,1,1,1,1,1,1,1,1,1,1,1,1,1>>,
         <<1,2,2,2,2,2,2,2,2,1,1,2,2,2,2,2,2,2,2,1>>,
         <<1,3,1,1,2,1,1,1,2,1,1,2,1,1,1,2,1,1,3,1>>,
         <<1,2,2,2,2,2,2,2,2,2,2,2,2,2,2,2,2,2,2,1>>,
         <<1,2,1,1,2,1,2,1,1,1,1,1,1,2,1,2,1,1,2,1>>,
         <<1,2,2,2,2,1,2,2,2,1,1,2,2,2,1,2,2,2,2,1>>,
         <<1,1,1,1,2,1,1,1,2,1,1,2,1,1,1,2,1,1,1,1>>,
         <<1,2,2,2,0,0,0,0,0,0,2,2,2,2,2,2,2,2,2,1>>,
         <<1,2,1,1,0,1,2,1,1,0,0,1,1,2,1,2,1,1,2,1>>,
         <<1,2,2,2,0,2,2,1,0,0,0,0,1,2,2,2,2,2,2,1>>,
         <<1,0,1,1,0,1,2,1,1,1,1,1,1,2,1,2,1,1,2,1>>,
         <<1,0,0,0,0,2,2,2,2,2,2,2,2,2,2,2,2,2,2,1>>,
         <<1,1,1,1,0,1,1,1,2,1,1,2,1,1,1,2,1,1,1,1>>,
         <<1,0,0,0,0,1,2,2,2,1,1,2,2,2,1,2,2,2,2,1>>,
         <<1,0,1,1,2,1,1,1,2,1,1,2,1,1,1,2,1,1,2,1>>,
         <<1,0,2,1,2,2,2,2,2,2,2,2,2,2,2,2,1,2,3,1>>,
         <<1,1,2,1,2,1,2,1,1,1,1,1,1,2,1,2,1,2,1,1>>,
         <<1,2,2,2,2,1,2,2,2,1,1,2,2,2,1,2,2,2,2,1>>,
         <<1,2,1,1,1,1,1,1,2,1,1,2,1,1,1,1,1,1,2,1>>,
         <<1,2,2,2,2,2,2,2,2,2,2,2,2,2,2,2,2,2,2,1>>,
         <<1,1,1,1,1,1,1,1,1,1,1,1,1,1,1,1,1,1,1,1>> >>,
   pacman |-> [x |-> 6750, y |-> 5550, start_x |-> 900, start_y |-> 6300,
               direction |-> "RIGHT", next_direction |-> "RIGHT", speed |-> 50],
   ghosts |->
       <<
         [x |-> 7180, y |-> 5400, start_x |-> 5400, start_y |-> 5400, direction |-> "LEFT",
          speed |-> 20, frightened |-> TRUE, frightened_timer |-> 80],
         [x |-> 7180, y |-> 5810, start_x |-> 6000, start_y |-> 5400, direction |-> "DOWN",
          speed |-> 20, frightened |-> TRUE, frightened_timer |-> 80] >>,
   score |-> 250, lives |-> 3, game_over |-> FALSE, win |-> FALSE,
   pellets_remaining |-> 185, high_score |-> 0]

\* Level 1 in play: both ghosts Evading with 288 ticks left, the player one
\* step below the pellet of tile (1, 1) and moving up.
SnapEvadeEat ==
  [maze |->
       <<
         <<1,1,1,1,1,1,1,1,1,1,1,1,1,1,1,1,1,1,1,1>>,
         <<1,2,2,2,2,2,2,2,2,1,1,2,2,2,2,2,2,2,2,1>>,
         <<1,0,1,1,2,1,1,1,2,1,1,2,1,1,1,2,1,1,3,1>>,
         <<1,0,0,0,0,2,2,2,2,2,2,2,2,2,2,2,2,2,2,1>>,
         <<1,2,1,1,0,1,2,1,1,1,1,1,1,2,1,2,1,1,2,1>>,
         <<1,2,2,2,0,1,2,2,2,1,1,2,2,2,1,2,2,2,2,1>>,
         <<1,1,1,1,0,1,1,1,2,1,1,2,1,1,1,2,1,1,1,1>>,
         <<1,0,0,0,0,2,2,2,2,2,2,2,2,2,2,2,2,2,2,1>>,
         <<1,0,1,1,2,1,2,1,1,0,0,1,1,2,1,2,1,1,2,1>>,
         <<1,0,2,2,2,2,2,1,0,0,0,0,1,2,2,2,2,2,2,1>>,
         <<1,0,1,1,2,1,2,1,1,1,1,1,1,2,1,2,1,1,2,1>>,
         <<1,2,2,2,2,2,2,2,2,2,2,2,2,2,2,2,2,2,2,1>>,
         <<1,1,1,1,2,1,1,1,2,1,1,2,1,1,1,2,1,1,1,1>>,
         <<1,2,2,2,2,1,2,2,2,1,1,2,2,2,1,2,2,2,2,1>>,
         <<1,2,1,1,2,1,1,1,2,1,1,2,1,1,1,2,1,1,2,1>>,
         <<1,3,2,1,2,2,2,2,2,2,2,2,2,2,2,2,1,2,3,1>>,
         <<1,1,2,1,2,1,2,1,1,1,1,1,1,2,1,2,1,2,1,1>>,
         <<1,2,2,2,2,1,2,2,2,1,1,2,2,2,1,2,2,2,2,1>>,
         <<1,2,1,1,1,1,1,1,2,1,1,2,1,1,1,1,1,1,2,1>>,
         <<1,2,2,2,2,2,2,2,2,2,2,2,2,2,2,2,2,2,2,1>>,
         <<1,1,1,1,1,1,1,1,1,1,1,1,1,1,1,1,1,1,1,1>> >>,
   pacman |-> [x |-> 1050, y |-> 1200, start_x |-> 900, start_y |-> 6300,
               direction |-> "UP", next_direction |-> "UP", speed |-> 50],
   ghosts |->
       <<
         [x |-> 5030, y |-> 5500, start_x |-> 5400, start_y |-> 5400, direction |-> "DOWN",
          speed |-> 20, frightened |-> TRUE, frightened_timer |-> 288],
         [x |-> 5610, y |-> 4770, start_x |-> 6000, start_y |-> 5400, direction |-> "RIGHT",
          speed |-> 20, frightened |-> TRUE, frightened_timer |-> 288] >>,
   score |-> 190, lives |-> 3, game_over |-> FALSE, win |-> FALSE,
   pellets_remaining |-> 191, high_score |-> 0]

\* Level 1 in play: the power pellet of tile (18, 15) is the last pellet, the
\* player one step above it, a Pursuing ghost beside it.  (Ghost 2 was
\* captured earlier: reset_position left its speed and countdown as they were.)
SnapLastPower ==
  [maze |->
       <<
         <<1,1,1,1,1,1,1,1,1,1,1,1,1,1,1,1,1,1,1,1>>,
         <<1,0,0,0,0,0,0,0,0,1,1,0,0,0,0,0,0,0,0,1>>,
         <<1,0,1,1,0,1,1,1,0,1,1,0,1,1,1,0,1,1,0,1>>,
         <<1,0,0,0,0,0,0,0,0,0,0,0,0,0,0,0,0,0,0,1>>,
         <<1,0,1,1,0,1,0,1,1,1,1,1,1,0,1,0,1,1,0,1>>,
         <<1,0,0,0,0,1,0,0,0,1,1,0,0,0,1,0,0,0,0,1>>,
         <<1,1,1,1,0,1,1,1,0,1,1,0,1,1,1,0,1,1,1,1>>,
         <<1,0,0,0,0,0,0,0,0,0,0,0,0,0,0,0,0,0,0,1>>,
         <<1,0,1,1,0,1,0,1,1,0,0,1,1,0,1,0,1,1,0,1>>,
         <<1,0,0,0,0,0,0,1,0,0,0,0,1,0,0,0,0,0,0,1>>,
         <<1,0,1,1,0,1,0,1,1,1,1,1,1,0,1,0,1,1,0,1>>,
         <<1,0,0,0,0,0,0,0,0,0,0,0,0,0,0,0,0,0,0,1>>,
         <<1,1,1,1,0,1,1,1,0,1,1,0,1,1,1,0,1,1,1,1>>,
         <<1,0,0,0,0,1,0,0,0,1,1,0,0,0,1,0,0,0,0,1>>,
         <<1,0,1,1,0,1,1,1,0,1,1,0,1,1,1,0,1,1,0,1>>,
         <<1,0,0,1,0,0,0,0,0,0,0,0,0,0,0,0,1,0,3,1>>,
         <<1,1,0,1,0,1,0,1,1,1,1,1,1,0,1,0,1,0,1,1>>,
         <<1,0,0,0,0,1,0,0,0,1,1,0,0,0,1,0,0,0,0,1>>,
         <<1,0,1,1,1,1,1,1,0,1,1,0,1,1,1,1,1,1,0,1>>,
         <<1,0,0,0,0,0,0,0,0,0,0,0,0,0,0,0,0,0,0,1>>,
         <<1,1,1,1,1,1,1,1,1,1,1,1,1,1,1,1,1,1,1,1>> >>,
   pacman |-> [x |-> 11050, y |-> 8950, start_x |-> 900, start_y |-> 6300,
               direction |-> "LEFT", next_direction |-> "LEFT", speed |-> 50],
   ghosts |->
       <<
         [x |-> 10750, y |-> 9270, start_x |-> 5400, start_y |-> 5400, direction |-> "UP",
          speed |-> 30, frightened |-> FALSE, frightened_timer |-> 0],
         [x |-> 7180, y |-> 5640, start_x |-> 6000, start_y |-> 5400, direction |-> "UP",
          speed |-> 20, frightened |-> FALSE, frightened_timer |-> 99] >>,
   score |-> 2370, lives |-> 3, game_over |-> FALSE, win |-> FALSE,
   pellets_remaining |-> 1, high_score |-> 0]

\* Level 1 in play: ghost 1 Pursuing at (279.0, 298.5), the player at
\* (140.0, 440.0) moving left; after the player's step the deltas are
\* dx = -141.5 and dy = 141.5.
SnapTie ==
  [maze |->
       <<
         <<1,1,1,1,1,1,1,1,1,1,1,1,1,1,1,1,1,1,1,1>>,
         <<1,2,2,2,2,2,2,2,2,1,1,2,2,2,2,2,2,2,2,1>>,
         <<1,3,1,1,2,1,1,1,2,1,1,2,1,1,1,2,1,1,3,1>>,
         <<1,2,2,2,2,2,2,2,2,2,2,2,2,2,2,2,2,2,2,1>>,
         <<1,2,1,1,2,1,2,1,1,1,1,1,1,2,1,2,1,1,2,1>>,
         <<1,2,2,2,2,1,2,2,2,1,1,2,2,2,1,2,2,2,2,1>>,
         <<1,1,1,1,2,1,1,1,2,1,1,2,1,1,1,2,1,1,1,1>>,
         <<1,2,2,2,2,2,2,2,2,2,2,2,2,2,2,2,2,2,2,1>>,
         <<1,2,1,1,2,1,2,1,1,0,0,1,1,2,1,2,1,1,2,1>>,
         <<1,0,2,2,2,2,2,1,0,0,0,0,1,2,2,2,2,2,2,1>>,
         <<1,0,1,1,2,1,2,1,1,1,1,1,1,2,1,2,1,1,2,1>>,
         <<1,0,0,0,0,2,2,2,2,2,2,2,2,2,2,2,2,2,2,1>>,
         <<1,1,1,1,0,1,1,1,2,1,1,2,1,1,1,2,1,1,1,1>>,
         <<1,2,2,2,0,1,2,2,2,1,1,2,2,2,1,2,2,2,2,1>>,
         <<1,2,1,1,0,1,1,1,2,1,1,2,1,1,1,2,1,1,2,1>>,
         <<1,3,2,1,0,2,2,2,2,2,2,2,2,2,2,2,1,2,3,1>>,
         <<1,1,2,1,2,1,2,1,1,1,1,1,1,2,1,2,1,2,1,1>>,
         <<1,2,2,2,2,1,2,2,2,1,1,2,2,2,1,2,2,2,2,1>>,
         <<1,2,1,1,1,1,1,1,2,1,1,2,1,1,1,1,1,1,2,1>>,
         <<1,2,2,2,2,2,2,2,2,2,2,2,2,2,2,2,2,2,2,1>>,
         <<1,1,1,1,1,1,1,1,1,1,1,1,1,1,1,1,1,1,1,1>> >>,
   pacman |-> [x |-> 2800, y |-> 8800, start_x |-> 900, start_y |-> 6300,
               direction |-> "LEFT", next_direction |-> "LEFT", speed |-> 50],
   ghosts |->
       <<
         [x |-> 5580, y |-> 5970, start_x |-> 5400, start_y |-> 5400, direction |-> "RIGHT",
          speed |-> 30, frightened |-> FALSE, frightened_timer |-> 0],
         [x |-> 5370, y |-> 5970, start_x |-> 6000, start_y |-> 5400, direction |-> "RIGHT",
          speed |-> 30, frightened |-> FALSE, frightened_timer |-> 0] >>,
   score |-> 100, lives |-> 3, game_over |-> FALSE, win |-> FALSE,
   pellets_remaining |-> 196, high_score |-> 0]

\* Level 2 in play (3 ghosts, speed 1.95): all ghosts Evading with 2 ticks
\* left, the player at rest at (52.5, 592.5).  (Coordinates to 1/20 px.)
SnapExpire ==
  [maze |->
       <<
         <<1,1,1,1,1,1,1,1,1,1,1,1,1,1,1,1,1,1,1,1>>,
         <<1,3,2,2,2,2,2,2,2,2,2,2,2,2,2,2,2,2,3,1>>,
         <<1,2,1,1,1,2,1,1,1,1,1,1,1,1,2,1,1,1,2,1>>,
         <<1,2,1,2,2,2,2,2,2,1,1,2,2,2,2,2,2,1,2,1>>,
         <<1,2,1,2,1,1,1,1,2,1,1,2,1,1,1,1,2,1,2,1>>,
         <<1,2,2,2,1,2,2,2,2,2,2,2,2,2,2,1,2,2,2,1>>,
         <<1,1,1,2,1,2,1,1,1,1,1,1,1,1,2,1,2,1,1,1>>,
         <<1,2,2,2,2,2,2,2,2,1,1,2,2,2,2,2,2,2,2,1>>,
         <<1,2,1,1,1,1,1,1,2,1,1,2,1,1,1,1,1,1,2,1>>,
         <<1,2,2,2,2,2,2,2,2,0,0,2,2,2,2,2,2,2,2,1>>,
         <<1,0,1,1,1,1,1,1,2,1,1,2,1,1,1,1,1,1,2,1>>,
         <<1,0,0,0,2,2,2,2,2,1,1,2,2,2,2,2,2,2,2,1>>,
         <<1,1,1,0,1,2,1,1,1,1,1,1,1,1,2,1,2,1,1,1>>,
         <<1,0,0,0,1,2,2,2,2,2,2,2,2,2,2,1,2,2,2,1>>,
         <<1,0,1,2,1,1,1,1,2,1,1,2,1,1,1,1,2,1,2,1>>,
         <<1,0,1,2,2,2,2,2,2,1,1,2,2,2,2,2,2,1,2,1>>,
         <<1,0,1,1,1,2,1,1,1,1,1,1,1,1,2,1,1,1,2,1>>,
         <<1,0,2,2,2,2,2,2,2,2,2,2,2,2,2,2,2,2,3,1>>,
         <<1,0,1,1,1,1,1,1,1,1,1,1,1,1,1,1,1,1,2,1>>,
         <<1,0,2,2,2,2,2,2,2,2,2,2,2,2,2,2,2,2,2,1>>,
         <<1,1,1,1,1,1,1,1,1,1,1,1,1,1,1,1,1,1,1,1>> >>,
   pacman |-> [x |-> 1050, y |-> 11850, start_x |-> 900, start_y |-> 6300,
               direction |-> "DOWN", next_direction |-> "DOWN", speed |-> 50],
   ghosts |->
       <<
         [x |-> 2360, y |-> 1805, start_x |-> 5400, start_y |-> 5400, direction |-> "RIGHT",
          speed |-> 20, frightened |-> TRUE, frightened_timer |-> 2],
         [x |-> 4062, y |-> 4206, start_x |-> 6000, start_y |-> 5400, direction |-> "LEFT",
          speed |-> 20, frightened |-> TRUE, frightened_timer |-> 2],
         [x |-> 3589, y |-> 3405, start_x |-> 6600, start_y |-> 5400, direction |-> "UP",
          speed |-> 20, frightened |-> TRUE, frightened_timer |-> 2] >>,
   score |-> 180, lives |-> 3, game_over |-> FALSE, win |-> FALSE,
   pellets_remaining |-> 186, high_score |-> 0]

\* Level 1, 20 ticks after setup_level(0) with no key pressed: ghost 1
\* Pursuing at (240.0, 270.0) facing LEFT, the wall tile (7, 9) one step
\* ahead; the player at rest at (52.5, 315.0).
SnapFallback ==
  [maze |->
       <<
         <<1,1,1,1,1,1,1,1,1,1,1,1,1,1,1,1,1,1,1,1>>,
         <<1,2,2,2,2,2,2,2,2,1,1,2,2,2,2,2,2,2,2,1>>,
         <<1,3,1,1,2,1,1,1,2,1,1,2,1,1,1,2,1,1,3,1>>,
         <<1,2,2,2,2,2,2,2,2,2,2,2,2,2,2,2,2,2,2,1>>,
         <<1,2,1,1,2,1,2,1,1,1,1,1,1,2,1,2,1,1,2,1>>,
         <<1,2,2,2,2,1,2,2,2,1,1,2,2,2,1,2,2,2,2,1>>,
         <<1,1,1,1,2,1,1,1,2,1,1,2,1,1,1,2,1,1,1,1>>,
         <<1,2,2,2,2,2,2,2,2,2,2,2,2,2,2,2,2,2,2,1>>,
         <<1,2,1,1,2,1,2,1,1,0,0,1,1,2,1,2,1,1,2,1>>,
         <<1,2,2,2,2,2,2,1,0,0,0,0,1,2,2,2,2,2,2,1>>,
         <<1,0,1,1,2,1,2,1,1,1,1,1,1,2,1,2,1,1,2,1>>,
         <<1,2,2,2,2,2,2,2,2,2,2,2,2,2,2,2,2,2,2,1>>,
         <<1,1,1,1,2,1,1,1,2,1,1,2,1,1,1,2,1,1,1,1>>,
         <<1,2,2,2,2,1,2,2,2,1,1,2,2,2,1,2,2,2,2,1>>,
         <<1,2,1,1,2,1,1,1,2,1,1,2,1,1,1,2,1,1,2,1>>,
         <<1,3,2,1,2,2,2,2,2,2,2,2,2,2,2,2,1,2,3,1>>,
         <<1,1,2,1,2,1,2,1,1,1,1,1,1,2,1,2,1,2,1,1>>,
         <<1,2,2,2,2,1,2,2,2,1,1,2,2,2,1,2,2,2,2,1>>,
         <<1,2,1,1,1,1,1,1,2,1,1,2,1,1,1,1,1,1,2,1>>,
         <<1,2,2,2,2,2,2,2,2,2,2,2,2,2,2,2,2,2,2,1>>,
         <<1,1,1,1,1,1,1,1,1,1,1,1,1,1,1,1,1,1,1,1>> >>,
   pacman |-> [x |-> 1050, y |-> 6300, start_x |-> 900, start_y |-> 6300,
               direction |-> "RIGHT", next_direction |-> "NONE", speed |-> 50],
   ghosts |->
       <<
         [x |-> 4800, y |-> 5400, start_x |-> 5400, start_y |-> 5400, direction |-> "LEFT",
          speed |-> 30, frightened |-> FALSE, frightened_timer |-> 0],
         [x |-> 5400, y |-> 5400, start_x |-> 6000, start_y |-> 5400, direction |-> "LEFT",
          speed |-> 30, frightened |-> FALSE, frightened_timer |-> 0] >>,
   score |-> 10, lives |-> 3, game_over |-> FALSE, win |-> FALSE,
   pellets_remaining |-> 205, high_score |-> 0]

InitSessions == {SetupLevel(0, 0), SnapDouble, SnapKill, SnapEnd, SnapPower, SnapRepower, SnapCapture, SnapEvadeEat, SnapLastPower, SnapTie, SnapFallback}

\* The game is in play (state PLAYING) on level level_idx with session s; a
\* ghost that is frightened with t ticks left was made so
\* FRIGHTENED_DURATION - t calls ago.
InitAt(s, level_idx) ==
  /\ levels = LEVELS
  /\ state = "PLAYING"
  /\ selected_level = level_idx
  /\ maze = s.maze
  /\ pacman = s.pacman
  /\ ghosts = s.ghosts
  /\ score = s.score
  /\ lives = s.lives
  /\ game_over = s.game_over
  /\ win = s.win
  /\ pellets_remaining = s.pellets_remaining
  /\ high_score = s.high_score
  /\ mid = MidOf(s)
  /\ evading = [i \in DOMAIN s.ghosts |->
                  IF s.ghosts[i].frightened
                  THEN FRIGHTENED_DURATION - s.ghosts[i].frightened_timer ELSE 0]
  /\ ticks = 0
  /\ events = <<>>

InitWith(s) == InitAt(s, 0)

Init ==
  \/ \E s \in InitSessions : InitWith(s)
  \/ InitAt(SnapExpire, 1)

Next == UpdateGame \/ HandleGameInput \/ HandlePauseInput \/ HandleMenuInput

Spec == Init /\ [][Next]_vars

\* ------------------------------------------------------------ a frightened spell
\* The player eats the power pellet of SnapPower and no key is pressed for
\* MaxEvadeTicks frames.
InitEvade == InitWith(SnapPower)

UpdateGameEvade == Frame(MaxEvadeTicks)

NextEvade == UpdateGameEvade

SpecEvade == InitEvade /\ [][NextEvade]_vars


\* ------------------------------------------------------------ other level lists
\* setup_level, find_spawn, the collision tests and the wrap read whatever
\* LEVELS holds.  The program is started with a level list of one entry drawn
\* from Templates: grids as wide as the screen, of 4 rows (find_spawn scans
\* rows 2 and 3) or of 10 rows, rows of equal length, values 0..3, at most
\* one ghost.
GridCols == SCREEN_WIDTH \div CELL_SIZE

WallRow == [c \in 1..GridCols |-> 1]

\* Row 2 is open from edge to edge: empty on the left half, pellets on the
\* right half.
TunnelGrid ==
  <<WallRow,
    [c \in 1..GridCols |-> IF c = 2 THEN 2 ELSE 1],
    [c \in 1..GridCols |-> IF c <= 10 THEN 0 ELSE 2],
    WallRow>>

\* The first open tile of row 2 is tile 5, a power pellet.
FirstOpenGrid ==
  <<WallRow,
    [c \in 1..GridCols |-> IF c = 2 THEN 2 ELSE 1],
    [c \in 1..GridCols |-> CASE c = 6 -> 3 [] c \in {7, 8} -> 2 [] c = 9 -> 0 [] OTHER -> 1],
    [c \in 1..GridCols |-> IF c = 3 THEN 0 ELSE 1]>>

\* Row 2 is all wall; row 3 holds the two pellets of the level.
LowerRowGrid ==
  <<WallRow,
    WallRow,
    WallRow,
    [c \in 1..GridCols |-> IF c \in {13, 14} THEN 2 ELSE 1]>>

\* No tile of rows 2 and 3 is open; row 1 holds pellets.
NoSpawnGrid ==
  <<WallRow,
    [c \in 1..GridCols |-> IF c \in 4..7 THEN 2 ELSE 1],
    WallRow,
    WallRow>>

\* Ten rows, so that the ghost's spawn (270, 270) is inside the grid, on the
\* wall tile (9, 9); of the tiles around it only tile (8, 9) is open.  The
\* player spawns on row 5.
PenGrid ==
  [r \in 1..10 |->
     CASE r = 6  -> [c \in 1..GridCols |-> IF c \in 15..18 THEN 2 ELSE 1]
       [] r = 10 -> [c \in 1..GridCols |-> IF c \in 6..9 THEN 0 ELSE 1]
       [] OTHER  -> WallRow]

Templates ==
  {[ghost_count |-> 1, speed_multiplier10 |-> 10, maze |-> TunnelGrid],
   [ghost_count |-> 1, speed_multiplier10 |-> 13, maze |-> FirstOpenGrid],
   [ghost_count |-> 0, speed_multiplier10 |-> 10, maze |-> LowerRowGrid],
   [ghost_count |-> 0, speed_multiplier10 |-> 10, maze |-> NoSpawnGrid],
   [ghost_count |-> 1, speed_multiplier10 |-> 10, maze |-> PenGrid]}

\* Game.__init__: score, high_score, lives and the flags are set; maze,
\* pacman, ghosts and pellets_remaining do not exist before the first
\* setup_level and are held here by values no handler reads in state LOADING
\* or in a menu.
NoSession ==
  [maze |-> <<>>, pacman |-> NewPacMan(0, 0), ghosts |-> <<>>,
   score |-> 0, lives |-> START_LIVES, game_over |-> FALSE, win |-> FALSE,
   pellets_remaining |-> 0, high_score |-> 0]

InitTemplate ==
  /\ levels \in {[i \in 0..0 |-> tp] : tp \in Templates}
  /\ state = "LOADING"
  /\ selected_level = 0
  /\ maze = NoSession.maze
  /\ pacman = NoSession.pacman
  /\ ghosts = NoSession.ghosts
  /\ score = NoSession.score
  /\ lives = NoSession.lives
  /\ game_over = NoSession.game_over
  /\ win = NoSession.win
  /\ pellets_remaining = NoSession.pellets_remaining
  /\ high_score = NoSession.high_score
  /\ mid = MidOf(NoSession)
  /\ evading = <<>>
  /\ ticks = 0
  /\ events = <<>>

\* Game.load_game(), called by run() in state LOADING.
LoadGame ==
  /\ state = "LOADING"
  /\ state' = "MAIN_MENU"
  /\ UNCHANGED <<levels, selected_level, sessionVars, histVars>>

UpdateGameTemplate == Frame(MaxTemplateTicks)

NextTemplate ==
  LoadGame \/ UpdateGameTemplate \/ HandleGameInput \/ HandlePauseInput \/ HandleMenuInput

SpecTemplate == InitTemplate /\ [][NextTemplate]_vars

\* ------------------------------------------------------------ properties
\* A step that is one call of update_game.
Tick == ticks' = ticks + 1

AtSpawn(a) == a.x = a.start_x /\ a.y = a.start_y

\* Every tile that is empty in m0 is empty in m1.
NoTileRestored(m0, m1) ==
  \A r \in DOMAIN m0 : \A c \in DOMAIN m0[r] : m0[r][c] = 0 => m1[r][c] = 0

\* The tile the player stands on at the pickup step of an update_game call
\* made from the current state, and what the maze holds there (-1 when the
\* call returns early or the tile is outside the maze).
PickupTile ==
  LET p == PacManUpdate(pacman, maze) IN <<TileOf(p.x), TileOf(p.y)>>

PickupKind ==
  IF game_over \/ win \/ ~InRange(maze, PickupTile[1], PickupTile[2]) THEN -1
  ELSE Cell(maze, PickupTile[1], PickupTile[2])

\* The ghosts the last update_game call captured.
Captured == {i \in DOMAIN ghosts : \E k \in DOMAIN events : events[k] = Ev("capture", i)}

\* C1: in a tick in which a Pursuing ghost in collision range costs a life
\* and lives stay above 0, the player and every ghost are at their spawn
\* coordinates at the end of the tick, and no empty tile has a pellet again.
C1_LifeLostResetsAll ==
  [][(Tick /\ HasEvent(events', "reset"))
       => /\ AtSpawn(pacman')
          /\ \A i \in DOMAIN ghosts' : AtSpawn(ghosts'[i])
          /\ NoTileRestored(maze, maze')]_vars

\* C2: in a tick in which a Pursuing ghost is in collision range, lives drop
\* by exactly 1 (however many ghosts are in range); when that leaves 0 the
\* game is over and the maze is as it was just before the collision.
C2_OneLifePerTick ==
  [][(Tick /\ HasEvent(events', "life_lost"))
       => /\ lives' = lives - 1
          /\ lives' = 0 => (game_over' /\ maze' = mid'.maze)]_vars

\* C3: a tick in which frightened ghosts are in collision range adds exactly
\* 200 to the score for each of them, and at the end of the tick each of them
\* is at its spawn coordinate and no longer frightened, whatever its countdown.
C3_CaptureScoresAndResets ==
  /\ score = mid.score + GHOST_SCORE * Cardinality(Captured)
  /\ \A i \in Captured : AtSpawn(ghosts[i]) /\ ~ghosts[i].frightened

\* A ghost was captured with time left on its countdown.
C3_Witness ==
  \E i \in Captured : ghosts[i].frightened_timer > 0 /\ score >= mid.score + GHOST_SCORE

\* C4: when the player's tile holds a power pellet at the pickup step, the
\* step adds exactly 50 to the score, takes 1 off pellets_remaining, empties
\* the tile and leaves every ghost frightened with the full countdown of 300,
\* the ghosts that were already frightened included.
C4_PowerPickup ==
  [][(Tick /\ PickupKind = 3)
       => /\ mid'.score = score + POWER_SCORE
          /\ mid'.pellets_remaining = pellets_remaining - 1
          /\ Cell(mid'.maze, PickupTile[1], PickupTile[2]) = 0
          /\ Cell(maze', PickupTile[1], PickupTile[2]) = 0
          /\ \A i \in DOMAIN ghosts :
               /\ mid'.ghosts[i].frightened
               /\ mid'.ghosts[i].frightened_timer = FRIGHTENED_DURATION]_vars

\* A power pellet was eaten while every ghost was already frightened.
C4_Witness ==
  /\ Len(ghosts) > 0
  /\ HasEvent(events, "power")
  /\ \A k \in DOMAIN events : events[k].e = "power" => events[k].g = Len(ghosts)
  /\ \A i \in DOMAIN ghosts : mid.ghosts[i].frightened_timer = FRIGHTENED_DURATION

\* C5: when the player's tile holds a pellet at the pickup step, the step
\* adds exactly 10 to the score, takes exactly 1 off pellets_remaining,
\* empties the tile and changes no ghost (mode and countdown included).
C5_PelletPickup ==
  [][(Tick /\ PickupKind = 2)
       => /\ mid'.score = score + PELLET_SCORE
          /\ mid'.pellets_remaining = pellets_remaining - 1
          /\ Cell(mid'.maze, PickupTile[1], PickupTile[2]) = 0
          /\ Cell(maze', PickupTile[1], PickupTile[2]) = 0
          /\ mid'.ghosts = ghosts]_vars

\* A pellet was eaten while a ghost was frightened.
C5_Witness ==
  /\ HasEvent(events, "eat")
  /\ \E i \in DOMAIN ghosts : mid.ghosts[i].frightened

\* C6: pellets_remaining never grows over a tick; win is set in exactly the
\* tick in which the count first reaches zero, never while the count is
\* positive, and the win step happens only once in a session.
C6_CountAndWin ==
  [][Tick
       => /\ pellets_remaining' <= pellets_remaining
          /\ win' <=> (win \/ (pellets_remaining > 0 /\ pellets_remaining' = 0))
          /\ win' => pellets_remaining' = 0
          /\ win => ~HasEvent(events', "win")]_vars

\* The tick in which the last pellet was eaten has just set win.
C6_Witness == win /\ pellets_remaining = 0 /\ HasEvent(events, "win")

\* Ghost i stops being frightened in this step by its countdown, not by a
\* capture or a reset after a lost life.
TimesOut(i) ==
  /\ ghosts[i].frightened
  /\ ~ghosts'[i].frightened
  /\ ~HasEvent(events', "reset")
  /\ \A k \in DOMAIN events' : events'[k] # Ev("capture", i)

\* C7: after a power pickup, with no capture, lost life or further power
\* pickup, a ghost is frightened for exactly 300 ticks and reverts in the tick
\* its countdown reaches zero: when it reverts it has been frightened at the
\* end of FRIGHTENED_DURATION ticks.
C7_EvadesFullDuration ==
  [][Tick
       => \A i \in DOMAIN ghosts :
            TimesOut(i) => /\ ghosts'[i].frightened_timer = 0
                           /\ evading[i] = FRIGHTENED_DURATION]_vars

\* C8: a tick made while win or game_over is already set changes nothing in
\* the session: positions, facings, modes, countdowns, tiles, score, lives
\* and pellets_remaining stay as they were.
C8_OverTickChangesNothing ==
  [][(Tick /\ (game_over \/ win)) => UNCHANGED sessionVars]_vars

\* A tick has been made on a session that was already over.
C8_Witness ==
  /\ game_over \/ win
  /\ ticks > 0
  /\ events = <<>>

\* C9: once win or game_over is set inside a tick, nothing more is done in
\* that tick: the step that set it is the last step of the call (no ghost
\* advanced, no collision resolved, no life lost, no score added after it).
C9_OutcomeEndsTick ==
  \A k \in DOMAIN events :
    events[k].e \in {"win", "game_over"} => k = Len(events)

\* C10: win and game_over are never both set.
C10_OneOutcome == ~(win /\ game_over)


\* C11: lives is always between 0 and 3, game_over is set exactly when
\* lives = 0, and lives is never negative.
C11_LivesRange ==
  /\ lives \in 0..START_LIVES
  /\ game_over <=> lives = 0

\* C12: whenever win or game_over is set the high score is at least the
\* score of the session, and the high score never goes down, over a tick or
\* over a rebuild of the session.
C12_HighScoreCovers ==
  [][/\ (win' \/ game_over') => high_score' >= score'
     /\ high_score' >= high_score]_vars

\* The tiles of a maze.
Tiles(m) == {c \in (1..Len(m)) \X (1..Len(m[1])) : TRUE}

\* C13: over a tick a tile changes only from pellet or power pellet to empty
\* (walls and empty tiles stay as they are, an emptied tile stays empty), and
\* a pickup step on an empty tile adds no score and changes neither
\* pellets_remaining nor any ghost.
C13_ConsumeOnce ==
  [][Tick
       => /\ \A c \in Tiles(maze) :
               \/ maze'[c[1]][c[2]] = maze[c[1]][c[2]]
               \/ maze[c[1]][c[2]] \in {2, 3} /\ maze'[c[1]][c[2]] = 0
          /\ PickupKind = 0
               => /\ mid'.maze = maze
                  /\ mid'.score = score
                  /\ mid'.pellets_remaining = pellets_remaining
                  /\ mid'.ghosts = ghosts]_vars

\* The player has stayed on the tile it emptied in an earlier tick: the last
\* call found the tile empty.
C13_Witness ==
  /\ HasEvent(events, "pacman")
  /\ ~HasEvent(events, "eat") /\ ~HasEvent(events, "power") /\ ~HasEvent(events, "reset")
  /\ score > 0
  /\ InRange(maze, TileOf(pacman.x), TileOf(pacman.y))
  /\ Cell(maze, TileOf(pacman.x), TileOf(pacman.y)) = 0
  /\ Cell(LEVELS[selected_level].maze, TileOf(pacman.x), TileOf(pacman.y)) \in {2, 3}


\* A session just built from entry i of the level list, stated from the
\* template: grid, counters, flags, player and ghosts.
Fresh(i) ==
  /\ state = "PLAYING"
  /\ selected_level = i
  /\ maze = levels[i].maze
  /\ score = 0
  /\ lives = 3
  /\ ~game_over /\ ~win
  /\ pellets_remaining = Cardinality({c \in Tiles(levels[i].maze) : levels[i].maze[c[1]][c[2]] \in {2, 3}})
  /\ AtSpawn(pacman) /\ pacman.direction = "RIGHT" /\ pacman.next_direction = "NONE"
  /\ pacman.speed = PACMAN_SPEED
  /\ DOMAIN ghosts = 1..levels[i].ghost_count
  /\ \A g \in DOMAIN ghosts :
       /\ AtSpawn(ghosts[g])
       /\ ghosts[g].start_x = CELL_SIZE * (8 + g) /\ ghosts[g].start_y = CELL_SIZE * 9
       /\ ~ghosts[g].frightened /\ ghosts[g].frightened_timer = 0
       /\ ghosts[g].direction = "RIGHT"
       /\ 10 * ghosts[g].speed = GHOST_SPEED * levels[i].speed_multiplier10

\* C17: after setup_level (restart or level advance) the session is fresh:
\* the grid is the level's template, score 0, lives 3, no outcome, the pellet
\* count is the template's, every ghost is at its spawn, Pursuing, at the
\* level's speed; only the high score is carried over, and no step changes
\* a template.
C17_SetupIsFresh ==
  [][/\ \A i \in DOMAIN levels :
          DoSetupLevel(i) => Fresh(i)' /\ high_score' = high_score
     /\ levels' = levels]_vars

\* Level 2 entered after a finished session of level 1 (the high score was
\* set, ticks were played, the records of the old session are gone).
C17_Witness ==
  /\ Fresh(1)
  /\ ticks > 0
  /\ events = <<>>
  /\ high_score > 0

\* C18: no step taken while the game is paused, and no step that enters
\* PAUSED, calls update_game or changes the session (positions, modes,
\* countdowns, tiles, score, lives, the queued direction), except the restart
\* button, which replaces the session.
C18_PauseIsInert ==
  [][(state = "PAUSED" \/ state' = "PAUSED")
       => \/ UNCHANGED <<sessionVars, ticks, events>>
          \/ state = "PAUSED" /\ DoSetupLevel(selected_level)]_vars

\* Paused in the middle of play, with a direction queued before the pause.
C18_Witness ==
  /\ state = "PAUSED"
  /\ ticks > 0
  /\ HasEvent(events, "pacman")
  /\ pacman.next_direction # "NONE"
  /\ ~game_over /\ ~win


\* The pixel width of the grid of the session.
MazeWidth == Cols(maze) * CELL_SIZE

\* The x the wrap is to give for a move to tx: tx - W beyond the right edge,
\* tx + W beyond the left edge.
WrapTo(tx) == IF tx > MazeWidth THEN tx - MazeWidth
              ELSE IF tx < 0 THEN tx + MazeWidth ELSE tx

\* The ghosts the last update_game call moved back to their spawn.
Respawned ==
  IF HasEvent(events, "reset") THEN DOMAIN ghosts ELSE Captured

\* C14: in a tick the player's committed move to x = W + d ends at x = d and
\* its move to x = -d ends at x = W - d, with y the y of the move; a ghost
\* that moved along x ends at the wrapped x of its step and keeps its y.
C14_WrapKeepsOffset ==
  [][(Tick /\ HasEvent(events', "pacman"))
       => /\ ~HasEvent(events', "reset")
               => LET d  == pacman'.direction
                      tx == pacman.x + DX(d) * pacman.speed
                      ty == pacman.y + DY(d) * pacman.speed
                  IN  (d # "NONE" /\ ~PacCheckCollision(tx, ty, maze))
                        => pacman'.x = WrapTo(tx) /\ pacman'.y = ty
          /\ \A g \in DOMAIN ghosts \ Respawned' :
               ghosts'[g].x # ghosts[g].x
                 => /\ ghosts'[g].y = ghosts[g].y
                    /\ \E sg \in {-1, 1} :
                         ghosts'[g].x = WrapTo(ghosts[g].x + sg * ghosts'[g].speed)]_vars

\* C15: in every state with a session the x of the player and of every
\* ghost is at least 0 and below the pixel width of the grid.
C15_XInsideGrid ==
  maze # <<>>
    => /\ 0 <= pacman.x /\ pacman.x < MazeWidth
       /\ \A g \in DOMAIN ghosts : 0 <= ghosts[g].x /\ ghosts[g].x < MazeWidth

\* The points an actor at (x, y) with step sp asks about: the step and the
\* 5-step lookahead in each direction.
Queries(x, y, sp) ==
  {<<x + DX(d) * sp * k, y + DY(d) * sp * k>> : d \in Directions, k \in {1, 5}}

\* C16: a collision query for a point outside the grid is not blocking, for
\* the player's test (each of its four corners) and for a ghost's test.
C16_OutOfRangePassable ==
  maze # <<>>
    => /\ \A q \in Queries(pacman.x, pacman.y, pacman.speed) :
            LET r == PACMAN_RADIUS - PACMAN_MARGIN
            IN  \A c \in {<<q[1] - r, q[2] - r>>, <<q[1] + r, q[2] - r>>,
                          <<q[1] - r, q[2] + r>>, <<q[1] + r, q[2] + r>>} :
                  ~InRange(maze, TileOf(c[1]), TileOf(c[2]))
                    => ~PacCornerBlocked(c[1], c[2], maze)
       /\ \A g \in DOMAIN ghosts :
            \A q \in Queries(ghosts[g].x, ghosts[g].y, ghosts[g].speed) :
              ~InRange(maze, TileOf(q[1]), TileOf(q[2]))
                => ~GhostCheckCollision(q[1], q[2], maze)

\* The spawn as the scan describes it: from tile (x, y) on, row by row and
\* left to right, the centre of the first tile that is not a wall, and
\* (300, 450) past the last row.
RECURSIVE SpawnScan(_, _, _)
SpawnScan(mz, y, x) ==
  IF y >= Len(mz) THEN <<300 * PX, 450 * PX>>
  ELSE IF x >= Len(mz[y + 1]) THEN SpawnScan(mz, y + 1, 0)
  ELSE IF mz[y + 1][x + 1] # 1
       THEN <<x * CELL_SIZE + CELL_SIZE \div 2, y * CELL_SIZE + CELL_SIZE \div 2>>
  ELSE SpawnScan(mz, y, x + 1)

\* C19: the player's spawn is the centre of the first tile that is not a
\* wall, scanning row by row from row floor(height / 2), and (300, 450) when
\* there is none; on every shipped level the spawn is the centre of a tile
\* inside the grid that is not a wall.
C19_SpawnIsFirstOpen ==
  /\ maze # <<>>
       => <<pacman.start_x, pacman.start_y>>
            = SpawnScan(levels[selected_level].maze, Len(levels[selected_level].maze) \div 2, 0)
  /\ \A i \in 0..(NumLevels - 1) :
       LET sp == FindSpawn(LEVELS[i].maze)
           mx == TileOf(sp[1])
           my == TileOf(sp[2])
       IN  /\ InRange(LEVELS[i].maze, mx, my)
           /\ Cell(LEVELS[i].maze, mx, my) # 1
           /\ sp = <<mx * CELL_SIZE + CELL_SIZE \div 2, my * CELL_SIZE + CELL_SIZE \div 2>>
           /\ sp = SpawnScan(LEVELS[i].maze, Len(LEVELS[i].maze) \div 2, 0)

\* A session in play on a grid whose lower half is all wall: the player was
\* placed at (300, 450).
C19_Witness ==
  /\ state = "PLAYING"
  /\ maze # <<>>
  /\ \A c \in Tiles(maze) : c[1] > Len(maze) \div 2 => maze[c[1]][c[2]] = 1
  /\ pacman.start_x = 300 * PX /\ pacman.start_y = 450 * PX

\* The ghosts setup_level has colours and names for.
SpawnSlots == 4

\* A level record setup_level can build a whole session from: rows of one
\* length, a tile that is not a wall in the lower half, no more ghosts than
\* spawn slots.
WellFormed(level) ==
  /\ \A r \in DOMAIN level.maze : Len(level.maze[r]) = Len(level.maze[1])
  /\ \E c \in Tiles(level.maze) : c[1] > Len(level.maze) \div 2 /\ level.maze[c[1]][c[2]] # 1
  /\ level.ghost_count <= SpawnSlots

\* C20: setup_level of a malformed level record fails and the game does not
\* enter PLAYING: whenever a session exists, in play or paused, the level it
\* was built from is well formed.
C20_MalformedRejected ==
  (state \in {"PLAYING", "PAUSED"} \/ maze # <<>>) => WellFormed(levels[selected_level])


\* The direction along the axis of the greater absolute delta, with the sign
\* of that delta; a tie goes to the horizontal axis.
DominantAxisDir(dx, dy) ==
  IF Abs(dx) >= Abs(dy)
  THEN (IF dx > 0 THEN "RIGHT" ELSE "LEFT")
  ELSE (IF dy > 0 THEN "DOWN" ELSE "UP")

\* The delta ghost g decides on against player p: towards the player when
\* Pursuing, away from it when Evading.
DeltaX(g, p) == IF g.frightened THEN g.x - p.x ELSE p.x - g.x

DeltaY(g, p) == IF g.frightened THEN g.y - p.y ELSE p.y - g.y

\* C21: in a tick, a ghost whose lookahead and step along the dominant axis
\* of its delta to the player (sign flipped when Evading, a tie |dx| = |dy|
\* going to the horizontal axis) are free ends the tick facing that way,
\* one step further.
C21_TieGoesHorizontal ==
  [][(Tick /\ HasEvent(events', "pacman") /\ ~HasEvent(events', "reset"))
       => \A g \in DOMAIN ghosts \ Captured' :
            LET p    == PacManUpdate(pacman, maze)
                g1   == GhostTimer(mid'.ghosts[g])
                dx   == DeltaX(g1, p)
                dy   == DeltaY(g1, p)
                want == DominantAxisDir(dx, dy)
                nx   == g1.x + DX(want) * g1.speed
                ny   == g1.y + DY(want) * g1.speed
            IN  ((dx # 0 \/ dy # 0)
                   /\ ~LookaheadBlocked(g1, want, maze)
                   /\ ~GhostCheckCollision(nx, ny, maze))
                  => /\ ghosts'[g].direction = want
                     /\ ghosts'[g].x = nx
                     /\ ghosts'[g].y = ny]_vars


\* The directions whose 5x-speed lookahead from ghost g is free.
FreeDirs(g, mz) == {d \in Directions : ~LookaheadBlocked(g, d, mz)}

\* Ghost g after a step in direction d, which is taken when it is free.
StepIn(g, d, mz) ==
  IF GhostCheckCollision(g.x + DX(d) * g.speed, g.y + DY(d) * g.speed, mz)
  THEN [g EXCEPT !.direction = d]
  ELSE [g EXCEPT !.direction = d,
                 !.x = g.x + DX(d) * g.speed, !.y = g.y + DY(d) * g.speed]

\* C22: in a tick, a ghost whose preferred direction (the axis of the
\* greater delta, no tie) has a blocked lookahead, and which has a direction
\* with a free lookahead, makes the move of that tick in one of the
\* directions with a free lookahead: the fallback chooses before the move.
C22_FallbackBeforeMove ==
  [][(Tick /\ HasEvent(events', "pacman") /\ ~HasEvent(events', "reset"))
       => \A g \in DOMAIN ghosts \ Captured' :
            LET p  == PacManUpdate(pacman, maze)
                g1 == GhostTimer(mid'.ghosts[g])
                dx == DeltaX(g1, p)
                dy == DeltaY(g1, p)
            IN  (/\ Abs(dx) # Abs(dy)
                 /\ LookaheadBlocked(g1, DominantAxisDir(dx, dy), maze)
                 /\ FreeDirs(g1, maze) # {})
                  => \E d \in FreeDirs(g1, maze) : ghosts'[g] = StepIn(g1, d, maze)]_vars


\* Ghost g as chase_pacman or flee_from_pacman leaves it, deciding against
\* player p.
Decided(g, mz, p) ==
  IF g.frightened THEN FleeFromPacman(g, mz, p) ELSE ChasePacman(g, mz, p)

\* The step of ghost g in its facing is refused.
StepBlocked(g, mz) ==
  GhostCheckCollision(g.x + DX(g.direction) * g.speed, g.y + DY(g.direction) * g.speed, mz)

\* C23: in a tick in which a ghost's step is refused (choose_random_direction
\* is called), the ghost stays where it is; its facing becomes a direction
\* whose lookahead is free, for every shuffle the only one when there is
\* exactly one, and stays as it was when there is none.
C23_FallbackPicksFree ==
  [][(Tick /\ HasEvent(events', "pacman") /\ ~HasEvent(events', "reset"))
       => \A g \in DOMAIN ghosts \ Captured' :
            LET p  == PacManUpdate(pacman, maze)
                g2 == Decided(GhostTimer(mid'.ghosts[g]), maze, p)
            IN  StepBlocked(g2, maze)
                  => /\ ghosts'[g].x = g2.x /\ ghosts'[g].y = g2.y
                     /\ FreeDirs(g2, maze) # {} => ghosts'[g].direction \in FreeDirs(g2, maze)
                     /\ FreeDirs(g2, maze) = {} => ghosts'[g].direction = g2.direction
                     /\ \A d \in Directions :
                          FreeDirs(g2, maze) = {d} => ghosts'[g].direction = d]_vars

\* After the first tick on PenGrid: the ghost is still on its spawn, where
\* LEFT is the only direction with a free lookahead, and has turned from
\* RIGHT to LEFT.
C23_Witness ==
  /\ state = "PLAYING"
  /\ ticks = 1
  /\ DOMAIN ghosts = {1}
  /\ InRange(maze, TileOf(ghosts[1].x), TileOf(ghosts[1].y))
  /\ AtSpawn(ghosts[1])
  /\ FreeDirs(ghosts[1], maze) = {"LEFT"}
  /\ ghosts[1].direction = "LEFT"


\* The speed setup_level gives the ghosts of the level in play, in tenths.
LevelSpeed10 == GHOST_SPEED * levels[selected_level].speed_multiplier10

\* C24: in the tick in which a ghost's countdown reaches 0 the ghost is
\* Pursuing again and its speed is the base speed of the level, GHOST_SPEED
\* times the level's multiplier, on every level.
C24_ExpiryRestoresLevelSpeed ==
  [][Tick
       => \A i \in DOMAIN ghosts :
            TimesOut(i) => /\ ~ghosts'[i].frightened
                           /\ 10 * ghosts'[i].speed = LevelSpeed10]_vars

\* C25: in every state with a session a ghost has the reduced speed exactly
\* when it is Evading, and a Pursuing ghost has the speed of its level, also
\* after a capture and after the reset that follows a lost life.
C25_SpeedFollowsMode ==
  maze # <<>>
    => \A g \in DOMAIN ghosts :
         /\ ghosts[g].frightened <=> ghosts[g].speed = FRIGHTENED_SPEED
         /\ ~ghosts[g].frightened => 10 * ghosts[g].speed = LevelSpeed10


\* The steps of a call that come from a proximity check.
CheckSteps == {"capture", "life_lost", "reset", "game_over"}

\* C26: the steps of an update_game call are in this order: the player's
\* advance first, then the advance of every ghost in list order, and only
\* then the outcomes of the proximity checks.
C26_AdvancesBeforeChecks ==
  /\ events # <<>> => events[1].e = "pacman"
  /\ \A j, k \in DOMAIN events :
       (events[j].e = "advance" /\ events[k].e = "advance" /\ j < k)
         => events[j].g < events[k].g
  /\ \A j, k \in DOMAIN events :
       (events[j].e \in CheckSteps /\ events[k].e = "advance") => k < j


\* One of the four corners of the box of half-width r around (x, y) is on a
\* wall tile of the grid.
CornerOnWall(x, y, r, mz) ==
  \E c \in {<<x - r, y - r>>, <<x + r, y - r>>, <<x - r, y + r>>, <<x + r, y + r>>} :
    /\ InRange(mz, TileOf(c[1]), TileOf(c[2]))
    /\ Cell(mz, TileOf(c[1]), TileOf(c[2])) = 1

\* C27: a position an actor has moved to in a tick passed the collision
\* test on the four corners of its box inset by the margin: none of them is
\* on a wall tile, for the player and for every ghost.
C27_FourCornersTested ==
  [][(Tick /\ HasEvent(events', "pacman") /\ ~HasEvent(events', "reset"))
       => /\ <<pacman'.x, pacman'.y>> # <<pacman.x, pacman.y>>
               => ~CornerOnWall(pacman'.x, pacman'.y, PACMAN_RADIUS - PACMAN_MARGIN, maze)
          /\ \A g \in DOMAIN ghosts \ Captured' :
               <<ghosts'[g].x, ghosts'[g].y>> # <<ghosts[g].x, ghosts[g].y>>
                 => ~CornerOnWall(ghosts'[g].x, ghosts'[g].y,
                                  GHOST_RADIUS - PACMAN_MARGIN, maze)]_vars


\* C28: in a tick without a reset, an actor whose move was refused (it is
\* where it was) faces the way it faced before the tick, the player and
\* every ghost that was not captured.
C28_FailedMoveKeepsFacing ==
  [][(Tick /\ HasEvent(events', "pacman") /\ ~HasEvent(events', "reset"))
       => /\ <<pacman'.x, pacman'.y>> = <<pacman.x, pacman.y>>
               => pacman'.direction = pacman.direction
          /\ \A g \in DOMAIN ghosts \ Captured' :
               <<ghosts'[g].x, ghosts'[g].y>> = <<ghosts[g].x, ghosts[g].y>>
                 => ghosts'[g].direction = ghosts[g].direction]_vars


\* A step of the player in direction d from where it is is open: d is a
\* direction and the collision test passes the position one speed further.
PlayerStepFree(d) ==
  /\ d # "NONE"
  /\ ~PacCheckCollision(pacman.x + DX(d) * pacman.speed,
                        pacman.y + DY(d) * pacman.speed, maze)

\* The player ends the tick facing d, one step of length speed further in d
\* (carried to the other edge when the step leaves the screen).
PlayerStepped(d) ==
  /\ pacman'.direction = d
  /\ pacman'.x = WrapX(pacman.x + DX(d) * pacman.speed)
  /\ pacman'.y = pacman.y + DY(d) * pacman.speed

\* C29: in a tick without a reset the queued direction of the player stays
\* queued, and the player takes a step in the queued direction, facing it,
\* if that step is open; otherwise a step in its facing if that step is
\* open; otherwise it stays where it is with its facing unchanged.
C29_PlayerTurning ==
  [][(Tick /\ HasEvent(events', "pacman") /\ ~HasEvent(events', "reset"))
       => /\ pacman'.next_direction = pacman.next_direction
          /\ pacman'.speed = pacman.speed
          /\ IF PlayerStepFree(pacman.next_direction)
             THEN PlayerStepped(pacman.next_direction)
             ELSE IF PlayerStepFree(pacman.direction)
             THEN PlayerStepped(pacman.direction)
             ELSE /\ pacman'.direction = pacman.direction
                  /\ pacman'.x = pacman.x
                  /\ pacman'.y = pacman.y]_vars

\* After a tick without a reset the player is one step away from its spawn
\* in the queued direction, UP or DOWN, and faces it: it stood on the spawn
\* facing RIGHT or NONE and has turned.
C29_Witness ==
  /\ state = "PLAYING"
  /\ HasEvent(events, "pacman") /\ ~HasEvent(events, "reset")
  /\ pacman.next_direction \in {"UP", "DOWN"}
  /\ pacman.direction = pacman.next_direction
  /\ pacman.x = pacman.start_x
  /\ pacman.y = pacman.start_y + DY(pacman.direction) * pacman.speed


\* Ghost.update(maze, pacman) when random.shuffle leaves the order q.
GhostUpdateWith(g, mz, p, q) ==
  LET g2 == Decided(GhostTimer(g), mz, p)
      nx == g2.x + DX(g2.direction) * g2.speed
      ny == g2.y + DY(g2.direction) * g2.speed
  IN  IF ~GhostCheckCollision(nx, ny, mz)
      THEN [g2 EXCEPT !.x = WrapX(nx), !.y = ny]
      ELSE LET g3 == ChooseRandomDirection(g2, mz, q)
           IN  [g3 EXCEPT !.x = WrapX(g3.x)]

\* Lines 1117-1141 from ghost i on, when the shuffle of ghost j leaves the
\* order qs[j].  r is [s, ev].
RECURSIVE GhostLoopWith(_, _, _)
GhostLoopWith(r, i, qs) ==
  IF i > Len(r.s.ghosts) THEN r
  ELSE LET g1 == GhostUpdateWith(r.s.ghosts[i], r.s.maze, r.s.pacman, qs[i])
           c  == Proximity([r.s EXCEPT !.ghosts[i] = g1], i)
       IN  GhostLoopWith([s |-> c.s, ev |-> r.ev \o <<Ev("advance", i)>> \o c.ev],
                         i + 1, qs)

\* Game.update_game() from session s when the shuffle of ghost j leaves the
\* order qs[j]: the session and the steps it ends in.
UpdateGameWith(s, qs) ==
  IF IsOver(s) THEN [s |-> s, ev |-> <<>>]
  ELSE LET s1 == [s EXCEPT !.pacman = PacManUpdate(s.pacman, s.maze)]
           a  == Pickup(s1)
           b  == WinCheck(a.s)
       IN  GhostLoopWith([s |-> b.s, ev |-> <<Ev("pacman", 0)>> \o a.ev \o b.ev], 1, qs)

PelletTiles == {c \in Tiles(maze) : maze[c[1]][c[2]] \in {2, 3}}

\* C31: in every state with a session pellets_remaining is the number of
\* pellet and power pellet tiles in the grid in play.
C31_CounterMatchesGrid ==
  maze # <<>> => pellets_remaining = Cardinality(PelletTiles)

\* A tick has just eaten a pellet or a power pellet and pellets are left.
C31_Witness ==
  /\ state = "PLAYING"
  /\ HasEvent(events, "eat") \/ HasEvent(events, "power")
  /\ pellets_remaining > 0
  /\ PelletTiles # {}


\* ------------------------------------------------------------ the player's walk
\* The player on the shipped levels, apart from the rest of the session:
\* every level starts at its setup_level; the walls of a grid never change,
\* and PacMan.update reads nothing else.
InitWalk == \E level_idx \in DOMAIN LEVELS : InitAt(SetupLevel(level_idx, 0), level_idx)

walkUnchanged == <<levels, state, selected_level, maze, ghosts, score, lives, game_over,
                   win, pellets_remaining, high_score, ticks, events, mid, evading>>

\* One frame of Game.run for the player: the last direction key of the
\* frame, if there was one, is queued by handle_game_input, then update_game
\* calls PacMan.update (line 1090).
WalkFrame ==
  /\ \E d \in Directions \cup {pacman.next_direction} :
       pacman' = PacManUpdate([pacman EXCEPT !.next_direction = d], maze)
  /\ UNCHANGED walkUnchanged

\* A ghost takes a life: PacMan.reset_position (line 1139).
WalkReset ==
  /\ pacman' = PacManReset(pacman)
  /\ UNCHANGED walkUnchanged

NextWalk == WalkFrame \/ WalkReset

SpecWalk == InitWalk /\ [][NextWalk]_vars

\* C32: wherever the player gets on a shipped level, from its spawn through
\* any moves and resets, none of the four corners of its box inset by the
\* margin is on a wall tile.
C32_PlayerOffWalls ==
  maze # <<>>
    => ~CornerOnWall(pacman.x, pacman.y, PACMAN_RADIUS - PACMAN_MARGIN, maze)

\* The player has left its spawn and stands against a wall: the step in
\* its facing would put a corner on a wall tile.
C32_Witness ==
  /\ ~AtSpawn(pacman)
  /\ pacman.direction # "NONE"
  /\ CornerOnWall(pacman.x + DX(pacman.direction) * pacman.speed,
                  pacman.y + DY(pacman.direction) * pacman.speed,
                  PACMAN_RADIUS - PACMAN_MARGIN, maze)


\* The point (x, y) is on a tile of grid mz that is not a wall.
OnOpenTile(x, y, mz) ==
  /\ InRange(mz, TileOf(x), TileOf(y))
  /\ Cell(mz, TileOf(x), TileOf(y)) # 1

\* C33: on the shipped levels the centre of every ghost is on a tile of the
\* grid that is not a wall, in every state of a session (so no ghost is ever
\* outside the grid, where the wrap of lines 447-450 would act), and so is
\* the spawn of every ghost of every shipped level.
C33_GhostOnOpenTile ==
  /\ maze # <<>>
       => \A g \in DOMAIN ghosts :
            /\ OnOpenTile(ghosts[g].x, ghosts[g].y, maze)
            /\ OnOpenTile(ghosts[g].start_x, ghosts[g].start_y, maze)
  /\ \A level_idx \in DOMAIN levels :
       \A g \in DOMAIN LevelGhosts(levels[level_idx]) :
         OnOpenTile(LevelGhosts(levels[level_idx])[g].x,
                    LevelGhosts(levels[level_idx])[g].y, levels[level_idx].maze)

\* After a tick a ghost is away from its spawn and next to a wall: a step
\* from where it stands is refused in some direction.
C33_Witness ==
  /\ state = "PLAYING"
  /\ HasEvent(events, "advance")
  /\ \E g \in DOMAIN ghosts :
       /\ ~AtSpawn(ghosts[g])
       /\ \E d \in Directions :
            GhostCheckCollision(ghosts[g].x + DX(d) * ghosts[g].speed,
                                ghosts[g].y + DY(d) * ghosts[g].speed, maze)


\* Ghost g advanced in the last update_game call and stands where it stood
\* before its advance, without a capture or a reset: its step was refused.
Stood(g) ==
  /\ \E k \in DOMAIN events : events[k] = Ev("advance", g)
  /\ ~HasEvent(events, "reset")
  /\ g \notin Captured
  /\ ghosts[g].x = mid.ghosts[g].x
  /\ ghosts[g].y = mid.ghosts[g].y

\* C34: in a tick without a reset, for every ghost that is not captured:
\* if its step was refused in the tick before and a direction with a free
\* 5x lookahead exists, it changes position in this tick; and if the
\* lookahead in the direction it prefers (towards the player, away from it
\* when Evading) is free, it ends the tick one step further in that
\* direction, facing it.
C34_NeverStuck ==
  [][(Tick /\ HasEvent(events', "pacman") /\ ~HasEvent(events', "reset"))
       => \A g \in DOMAIN ghosts \ Captured' :
            LET p    == PacManUpdate(pacman, maze)
                g1   == GhostTimer(mid'.ghosts[g])
                want == PreferredDir(DeltaX(g1, p), DeltaY(g1, p))
            IN  /\ (Stood(g) /\ FreeDirs(ghosts[g], maze) # {})
                     => <<ghosts'[g].x, ghosts'[g].y>> # <<ghosts[g].x, ghosts[g].y>>
                /\ ~LookaheadBlocked(g1, want, maze)
                     => /\ ghosts'[g].direction = want
                        /\ ghosts'[g].x = g1.x + DX(want) * g1.speed
                        /\ ghosts'[g].y = g1.y + DY(want) * g1.speed]_vars

\* Two ticks in a row without a reset: in the second a ghost has left the
\* place where the lookahead and the step in the direction it prefers are
\* both refused, by a step in the direction the fallback left it facing.
C34_Witness ==
  /\ state = "PLAYING"
  /\ ticks >= 2
  /\ ~HasEvent(events, "reset")
  /\ \E g \in DOMAIN ghosts \ Captured :
       LET g0   == mid.ghosts[g]
           want == PreferredDir(DeltaX(g0, pacman), DeltaY(g0, pacman))
       IN  /\ \E k \in DOMAIN events : events[k] = Ev("advance", g)
           /\ LookaheadBlocked(g0, want, maze)
           /\ GhostCheckCollision(g0.x + DX(want) * g0.speed, g0.y + DY(want) * g0.speed, maze)
           /\ ghosts[g].direction # want
           /\ ghosts[g].x = g0.x + DX(ghosts[g].direction) * ghosts[g].speed
           /\ ghosts[g].y = g0.y + DY(ghosts[g].direction) * ghosts[g].speed

=============================================================================
